---------------------------- MODULE Spec2Model ----------------------------
(***************************************************************************)
(* A model of refactor-prompt.mjs: the function scanner, the analyzers     *)
(* that parse the model's reply, the two refactor-file generators and the  *)
(* two drivers (the batched one of lines 1-333 and the sequential one of   *)
(* lines 334-536 of the same file), and of the cache of the sample         *)
(* utilities of another_test.js.                                           *)
(*                                                                         *)
(* Text is a sequence of lexemes.  Each lexeme stands for a fixed piece of *)
(* source text ("function", "/**", an identifier character, a blank ...),  *)
(* offsets count lexemes and start at 0 as in JavaScript.  The lexemes are  *)
(* chosen so that no expression of the program matches a part of one; the  *)
(* one text where that fails, a comment opener directly followed by        *)
(* another, is left out of the file contents.                              *)
(***************************************************************************)
EXTENDS Integers, Sequences, FiniteSets, TLC

-----------------------------------------------------------------------------
(* Strings *)

\* String.prototype.slice(a, b) for 0 <= a, b (end clamped to the length).
Slice(s, a, b) ==
    LET e == IF b > Len(s) THEN Len(s) ELSE b
    IN  IF a >= e THEN <<>> ELSE SubSeq(s, a + 1, e)

\* slice(a) taken one character too late.
SliceFromOffByOne(s, a) == Slice(s, a + 1, Len(s))

\* String.prototype.slice(a): the rest of the string from offset a.
SliceFrom(s, a) == Slice(s, a, Len(s))

RECURSIVE Concat(_)
\* The concatenation of a sequence of strings.
Concat(ss) == IF Len(ss) = 0 THEN <<>> ELSE Head(ss) \o Concat(Tail(ss))

-----------------------------------------------------------------------------
(* The lexemes of a JavaScript source file *)

Space == {"sp", "nl"}                                   \* \s
Word == {"function", "async", "const", "id"}            \* runs of \w
Punct == {"(", ")", "{", "}", "=", ">", ";"}
Sigma == Space \cup Word \cup Punct \cup {"/**", "*/", "*REFACTOR:"}
HasStar == {"/**", "*/", "*REFACTOR:"}                  \* lexemes holding a '*'

-----------------------------------------------------------------------------
(* Regular expressions, with the backtracking order of RegExp.prototype.exec *)

Cls(S) == <<"cls", S>>                \* one lexeme of the class S
Lit(c) == <<"cls", {c}>>              \* a literal
Cat(rs) == <<"cat", rs>>              \* r1 r2 ... rn
Alt(a, b) == <<"alt", a, b>>          \* a|b, a tried first
Star(a) == <<"star", a>>              \* a*   (greedy)
Lazy(a) == <<"lazy", a>>              \* a*?  (lazy)
Opt(a) == <<"opt", a>>                \* a?   (greedy)
Cap(i, a) == <<"cap", i, a>>          \* capture group i
Plus(a) == Cat(<<a, Star(a)>>)        \* a+

NoCapture == <<-1, -1>>
MatchState(p) == [pos |-> p, cap |-> <<NoCapture, NoCapture>>]

RECURSIVE M(_, _, _), MAll(_, _, _), MCat(_, _, _)
\* Every way r matches s from the state st, as the sequence of end states in
\* the order the backtracking matcher tries them.
M(r, s, st) ==
    CASE r[1] = "cls" ->
           IF st.pos < Len(s) /\ s[st.pos + 1] \in r[2]
           THEN <<[st EXCEPT !.pos = @ + 1]>> ELSE <<>>
      [] r[1] = "cat" -> MCat(r[2], s, <<st>>)
      [] r[1] = "alt" -> M(r[2], s, st) \o M(r[3], s, st)
      [] r[1] = "star" ->
           MAll(r, s, SelectSeq(M(r[2], s, st), LAMBDA t : t.pos > st.pos))
             \o <<st>>
      [] r[1] = "lazy" ->
           <<st>> \o
             MAll(r, s, SelectSeq(M(r[2], s, st), LAMBDA t : t.pos > st.pos))
      [] r[1] = "opt" -> M(r[2], s, st) \o <<st>>
      [] r[1] = "cap" ->
           LET ends == M(r[3], s, st)
           IN  [k \in 1..Len(ends) |->
                  [ends[k] EXCEPT !.cap[r[2]] = <<st.pos, ends[k].pos>>]]

\* r matched from each state of sts in turn.
MAll(r, s, sts) ==
    IF Len(sts) = 0 THEN <<>>
    ELSE M(r, s, Head(sts)) \o MAll(r, s, Tail(sts))

\* The nodes rs matched one after the other.
MCat(rs, s, sts) ==
    IF Len(rs) = 0 \/ Len(sts) = 0 THEN sts
    ELSE MCat(Tail(rs), s, MAll(Head(rs), s, sts))

NoMatch == [found |-> FALSE, index |-> -1, end |-> -1,
            cap |-> <<NoCapture, NoCapture>>]

RECURSIVE Exec(_, _, _)
\* regex.exec(s) of a /g expression whose lastIndex is from: the leftmost
\* match at or after from, the first one in backtracking order.
Exec(r, s, from) ==
    IF from > Len(s) THEN NoMatch
    ELSE LET ends == M(r, s, MatchState(from))
         IN  IF Len(ends) > 0
             THEN [found |-> TRUE, index |-> from, end |-> ends[1].pos,
                   cap |-> ends[1].cap]
             ELSE Exec(r, s, from + 1)

\* match[i] of a match: the captured text, or "" when the group took no part.
Group(s, m, i) ==
    IF m.cap[i] = NoCapture THEN <<>> ELSE Slice(s, m.cap[i][1], m.cap[i][2])

-----------------------------------------------------------------------------
(* Array.prototype.sort with the comparators of the program (a stable sort) *)

RECURSIVE InsertDesc(_, _)
\* x put into the descending sequence s, after the records of the same key.
InsertDesc(s, x) ==
    IF Len(s) = 0 THEN <<x>>
    ELSE IF Head(s).startIndex >= x.startIndex
         THEN <<Head(s)>> \o InsertDesc(Tail(s), x)
         ELSE <<x>> \o s

RECURSIVE SortDescending(_)
\* records.sort((a, b) => b.startIndex - a.startIndex)
SortDescending(s) ==
    IF Len(s) = 0 THEN <<>>
    ELSE InsertDesc(SortDescending(SubSeq(s, 1, Len(s) - 1)), s[Len(s)])

\* The ascending comparator with its operands exchanged.
SortAscendingReversed(s) == SortDescending(s)

RECURSIVE InsertAsc(_, _)
\* x put into the ascending sequence s, after the records of the same key.
InsertAsc(s, x) ==
    IF Len(s) = 0 THEN <<x>>
    ELSE IF Head(s).startIndex <= x.startIndex
         THEN <<Head(s)>> \o InsertAsc(Tail(s), x)
         ELSE <<x>> \o s

RECURSIVE SortAscending(_)
\* records.sort((a, b) => a.startIndex - b.startIndex)
SortAscending(s) ==
    IF Len(s) = 0 THEN <<>>
    ELSE InsertAsc(SortAscending(SubSeq(s, 1, Len(s) - 1)), s[Len(s)])

-----------------------------------------------------------------------------
(* The scanner: extractFunctions, in its two versions *)

Blanks == Star(Cls(Space))
Params == Cat(<<Lit("("), Star(Cls(Sigma \ {")"})), Lit(")")>>)

\* (?:\/\*\*(?:[\s\S]*?)\*\/\s*)
DocBlock == Cat(<<Lit("/**"), Lazy(Cls(Sigma)), Lit("*/"), Blanks>>)

\* {(?:{[^}]*}|[^}])*}
BodyBatched ==
    Cat(<<Lit("{"),
          Star(Alt(Cat(<<Lit("{"), Star(Cls(Sigma \ {"}"})), Lit("}")>>),
                   Cls(Sigma \ {"}"}))),
          Lit("}")>>)

\* The function pattern of the batched version from the async qualifier on:
\* the declaration without the documentation blocks before it.
declarationRegexBatched ==
    Cat(<<Opt(Cat(<<Lit("async"), Plus(Cls(Space))>>)),
          Alt(Cat(<<Lit("function"), Plus(Cls(Space)), Cap(1, Plus(Cls(Word)))>>),
              Cat(<<Lit("const"), Plus(Cls(Space)), Cap(2, Plus(Cls(Word))),
                    Blanks, Lit("="), Opt(Cat(<<Blanks, Lit("async")>>)), Blanks,
                    Alt(Lit("function"),
                        Cat(<<Params, Blanks, Lit("="), Lit(">")>>))>>)),
          Blanks, Params, Blanks, BodyBatched>>)

\* The function pattern of the batched version.
functionRegexBatched == Cat(<<Star(DocBlock), declarationRegexBatched>>)

\* The function pattern of the sequential version.
functionRegexSequential ==
    Cat(<<Lit("function"), Plus(Cls(Space)), Cap(1, Plus(Cls(Word))),
          Blanks, Params, Blanks,
          Lit("{"), Star(Cls(Sigma \ {"}"})), Lit("}")>>)

\* The pattern of a REFACTOR: marker comment.
refactorCommentRegex ==
    Cat(<<Lit("/**"), Blanks, Lit("nl"), Blanks, Lit("*REFACTOR:"),
          Star(Cls(Sigma \ HasStar)), Lit("*/")>>)

RECURSIVE MatchAll(_, _, _)
\* Array.from(s.matchAll(r), m => m[0]): the matches from left to right.
MatchAll(r, s, from) ==
    LET m == Exec(r, s, from)
    IN  IF ~m.found THEN <<>>
        ELSE <<Slice(s, m.index, m.end)>> \o
             MatchAll(r, s, IF m.end > m.index THEN m.end ELSE m.end + 1)

\* The module context of a function.  Only fullContext is modelled: no lexeme
\* stands for an import, and the declarations are read by no later step.
extractModuleContext(text, functionEndIndex) ==
    [fullContext |-> Slice(text, 0, functionEndIndex)]

\* The record the batched scanner pushes for the match m.
RecordBatched(text, lastIndex, m) ==
    LET preText == Slice(text, lastIndex, m.index)
        refactorComments == MatchAll(refactorCommentRegex, preText, 0)
        name1 == Group(text, m, 1)
    IN  [name |-> IF Len(name1) > 0 THEN name1 ELSE Group(text, m, 2),
         code |-> Slice(text, m.index, m.end),
         preText |-> IF Len(refactorComments) > 0
                     THEN refactorComments[Len(refactorComments)] ELSE <<>>,
         startIndex |-> m.index,
         endIndex |-> m.end,
         moduleContext |-> extractModuleContext(text, m.index)]

\* The record the sequential scanner pushes for the match m.
RecordSequential(text, lastIndex, m) ==
    [name |-> Group(text, m, 1),
     code |-> Slice(text, m.index, m.end),
     preText |-> Slice(text, lastIndex, m.index),
     startIndex |-> m.index,
     endIndex |-> m.end]

RECURSIVE LoopBatched(_, _, _)
\* The while loop of the batched scanner, from lastIndex on.
LoopBatched(text, lastIndex, found) ==
    LET m == Exec(functionRegexBatched, text, lastIndex)
    IN  IF ~m.found
        THEN [functions |-> SortAscending(found),
              postText |-> SliceFrom(text, lastIndex)]
        ELSE LoopBatched(text, m.end,
                         Append(found, RecordBatched(text, lastIndex, m)))

RECURSIVE LoopSequential(_, _, _)
\* The while loop of the sequential scanner, from lastIndex on.
LoopSequential(text, lastIndex, found) ==
    LET m == Exec(functionRegexSequential, text, lastIndex)
    IN  IF ~m.found
        THEN [functions |-> found, postText |-> SliceFrom(text, lastIndex)]
        ELSE LoopSequential(text, m.end,
                            Append(found, RecordSequential(text, lastIndex, m)))

extractFunctionsBatched(text) == LoopBatched(text, 0, <<>>)

extractFunctionsSequential(text) == LoopSequential(text, 0, <<>>)

-----------------------------------------------------------------------------
(* JavaScript values and the reply of the model *)

\* A value: its type tag (the booleans, null and undefined are their own
\* tags) and, for a string, its text.
JsTrue == [t |-> "true", s |-> <<>>]
JsFalse == [t |-> "false", s |-> <<>>]
JsNull == [t |-> "null", s |-> <<>>]
JsUndefined == [t |-> "undefined", s |-> <<>>]
JsNumber == [t |-> "number", s |-> <<>>]          \* a number other than 0
JsString(text) == [t |-> "string", s |-> text]

\* ToBoolean
Truthy(v) == v.t \in {"true", "number"} \/ (v.t = "string" /\ Len(v.s) > 0)

\* { needsRefactor: false, refactorPrompt: null }
DefaultVerdict == [needsRefactor |-> JsFalse, refactorPrompt |-> JsNull]

\* The lexemes of a reply.  The member lexemes stand for the text between
\* the braces of a JSON object: "nr" is "needsRefactor", "rp" is
\* "refactorPrompt"; "nr:true,rp:'" ends with the quote that opens the prompt
\* string and "'" is the quote that closes it; "esc:nl" is an escaped newline.
ReplyBlank == {"sp", "nl"}
WholeMembers == {"nr:true,rp:null", "nr:false,rp:null", "note:1", "nr:'yes',rp:7"}
StringOpen == "nr:true,rp:'"
StringClose == "'"
StringChars == {"p", "sp", "esc:nl", "fence", "json", "{", "}"}
ReplySigma ==
    ReplyBlank \cup WholeMembers \cup StringChars \cup {StringOpen, StringClose}

\* The object a whole member lexeme denotes.
MemberValue(m) ==
    CASE m = "nr:true,rp:null" -> [needsRefactor |-> JsTrue, refactorPrompt |-> JsNull]
      [] m = "nr:false,rp:null" -> [needsRefactor |-> JsFalse, refactorPrompt |-> JsNull]
      [] m = "note:1" -> [needsRefactor |-> JsUndefined, refactorPrompt |-> JsUndefined]
      [] m = "nr:'yes',rp:7" ->
           [needsRefactor |-> JsString(<<"p">>), refactorPrompt |-> JsNumber]

RECURSIVE TrimStart(_)
\* The text without its leading blanks.
TrimStart(s) ==
    IF Len(s) > 0 /\ Head(s) \in ReplyBlank THEN TrimStart(Tail(s)) ELSE s

RECURSIVE TrimEnd(_)
\* The text without its trailing blanks.
TrimEnd(s) ==
    IF Len(s) > 0 /\ s[Len(s)] \in ReplyBlank
    THEN TrimEnd(SubSeq(s, 1, Len(s) - 1)) ELSE s

\* String.prototype.trim
Trim(s) == TrimEnd(TrimStart(s))

\* The text of a JSON string literal's content: escapes replaced.
Unescape(s) == [k \in 1..Len(s) |-> IF s[k] = "esc:nl" THEN "nl" ELSE s[k]]

SyntaxError == [ok |-> FALSE, value |-> DefaultVerdict]

\* JSON.parse of a text: blanks are allowed around the tokens, a raw newline
\* is not allowed inside a string.
JsonParse(s) ==
    LET t == Trim(s)
    IN  IF Len(t) < 2 \/ t[1] # "{" \/ t[Len(t)] # "}" THEN SyntaxError
        ELSE LET inner == Trim(Slice(t, 1, Len(t) - 1))
             IN  IF Len(inner) = 0
                 THEN [ok |-> TRUE,
                       value |-> [needsRefactor |-> JsUndefined,
                                  refactorPrompt |-> JsUndefined]]
                 ELSE IF Len(inner) = 1 /\ inner[1] \in WholeMembers
                 THEN [ok |-> TRUE, value |-> MemberValue(inner[1])]
                 ELSE IF /\ Len(inner) >= 2
                         /\ inner[1] = StringOpen
                         /\ inner[Len(inner)] = StringClose
                         /\ \A k \in 2..(Len(inner) - 1) : inner[k] \in StringChars
                 THEN [ok |-> TRUE,
                       value |-> [needsRefactor |-> JsTrue,
                                  refactorPrompt |->
                                    JsString(Unescape(Slice(inner, 1, Len(inner) - 1)))]]
                 ELSE SyntaxError

RECURSIVE Remove(_, _, _)
\* s.replace(r, '') for a /g expression r, from offset from on.
Remove(r, s, from) ==
    LET m == Exec(r, s, from)
    IN  IF ~m.found THEN SliceFrom(s, from)
        ELSE Slice(s, from, m.index) \o
             (IF m.end > m.index THEN Remove(r, s, m.end)
              ELSE Slice(s, m.end, m.end + 1) \o Remove(r, s, m.end + 1))

\* indexOf, -1 when c does not occur
IndexOf(s, c) ==
    IF \E k \in 1..Len(s) : s[k] = c
    THEN (CHOOSE k \in 1..Len(s) : s[k] = c /\ \A j \in 1..(k - 1) : s[j] # c) - 1
    ELSE -1

\* lastIndexOf, -1 when c does not occur
LastIndexOf(s, c) ==
    IF \E k \in 1..Len(s) : s[k] = c
    THEN (CHOOSE k \in 1..Len(s) : s[k] = c /\ \A j \in (k + 1)..Len(s) : s[j] # c) - 1
    ELSE -1

-----------------------------------------------------------------------------
(* The analyzers, from the accumulated reply on *)

\* The object pattern with a lazy quantifier: up to the first closing brace.
jsonObjectRegexLazy == Cat(<<Lit("{"), Lazy(Cls(ReplySigma)), Lit("}")>>)

\* /{[^]*}/
jsonObjectRegex == Cat(<<Lit("{"), Star(Cls(ReplySigma)), Lit("}")>>)

\* The try block of analyzeFunction after the stream has been read.
TryParseBatched(analysisResult) ==
    LET jsonMatch == Exec(jsonObjectRegex, analysisResult, 0)
    IN  IF ~jsonMatch.found THEN SyntaxError
        ELSE JsonParse(Slice(analysisResult, jsonMatch.index, jsonMatch.end))

\* analyzeFunction from the accumulated reply on: the analysis it returns
\* and whether an exception left it.
ParseBatched(analysisResult) ==
    LET r == TryParseBatched(analysisResult)
    IN  [threw |-> FALSE,
         analysis |-> IF r.ok THEN r.value ELSE DefaultVerdict]

\* The code-fence patterns: a fence marker with json, and a fence marker,
\* each with the blanks after it, both /g.
jsonFenceRegex == Cat(<<Lit("fence"), Lit("json"), Star(Cls(ReplyBlank))>>)
fenceRegex == Cat(<<Lit("fence"), Star(Cls(ReplyBlank))>>)

\* cleanedResult
CleanResult(analysisResult) ==
    Trim(Remove(fenceRegex, Remove(jsonFenceRegex, analysisResult, 0), 0))

\* The try block of analyzeFunctionForRefactoring.
TryParseSequential(analysisResult) ==
    LET cleanedResult == CleanResult(analysisResult)
        start == IndexOf(cleanedResult, "{")
        end == LastIndexOf(cleanedResult, "}") + 1
    IN  IF start = -1 \/ end = 0 THEN SyntaxError
        ELSE JsonParse(Slice(cleanedResult, start, end))

\* The sequential analyzer with the parse outside its try block.
ParseSequentialNoCatch(analysisResult) ==
    LET r == TryParseSequential(analysisResult)
    IN  [threw |-> ~r.ok, analysis |-> r.value]

\* analyzeFunctionForRefactoring from the accumulated reply on.
ParseSequential(analysisResult) ==
    LET r == TryParseSequential(analysisResult)
    IN  [threw |-> FALSE,
         analysis |-> IF r.ok THEN r.value ELSE DefaultVerdict]

-----------------------------------------------------------------------------
(* The refactor-file generators *)

RECURSIVE Split(_, _)
\* s.split(sep) for a one-lexeme separator: at least one part.
Split(s, sep) ==
    LET k == IndexOf(s, sep)
    IN  IF k = -1 THEN <<s>>
        ELSE <<Slice(s, 0, k)>> \o Split(SliceFrom(s, k + 1), sep)

RECURSIVE Join(_, _)
\* parts.join(sep)
Join(parts, sep) ==
    IF Len(parts) = 0 THEN <<>>
    ELSE IF Len(parts) = 1 THEN parts[1]
    ELSE parts[1] \o sep \o Join(Tail(parts), sep)

RECURSIVE CollapseBlanks(_)
\* s.replace(/\s+/g, ' ')
CollapseBlanks(s) ==
    IF Len(s) = 0 THEN <<>>
    ELSE IF Head(s) \in ReplyBlank
         THEN <<"sp">> \o CollapseBlanks(TrimStart(s))
         ELSE <<Head(s)>> \o CollapseBlanks(Tail(s))

Includes(s, c) == \E k \in 1..Len(s) : s[k] = c

\* A path is a sequence of lexemes: "/" separates its segments, a segment is
\* a name followed by dot parts (".js"), or a dot part first for a dot file.
DotParts == {".js", ".refactor", ".hidden"}

\* The segments of a path.
Segments(p) == Split(p, "/")

\* path.normalize for paths without "..": the "." segments and the empty
\* segments go, a leading "/" stays.
Normalize(p) ==
    LET kept == SelectSeq(Segments(p), LAMBDA seg : seg # <<>> /\ seg # <<".">>)
        joined == (IF Len(p) > 0 /\ p[1] = "/" THEN <<"/">> ELSE <<>>)
                    \o Join(kept, <<"/">>)
    IN  IF Len(joined) = 0 THEN <<".">> ELSE joined

\* The last segment of a path.
LastSegment(p) == Segments(p)[Len(Segments(p))]

\* path.extname: the last dot part of the last segment, unless it is the
\* whole of it.
extname(p) ==
    LET b == LastSegment(p)
    IN  IF Len(b) >= 2 /\ b[Len(b)] \in DotParts THEN <<b[Len(b)]>> ELSE <<>>

\* path.basename(p, ext): the last segment without a trailing ext.
basename(p, ext) ==
    LET b == LastSegment(p)
    IN  IF Len(ext) > 0 /\ Len(b) > Len(ext)
           /\ SliceFrom(b, Len(b) - Len(ext)) = ext
        THEN Slice(b, 0, Len(b) - Len(ext)) ELSE b

\* path.dirname: what precedes the last separator, "." when there is none.
dirname(p) ==
    LET k == LastIndexOf(p, "/")
    IN  IF k = -1 THEN <<".">> ELSE IF k = 0 THEN <<"/">> ELSE Slice(p, 0, k)

\* path.join(dir, file)
PathJoin(dir, file) == Normalize(dir \o <<"/">> \o file)

\* The refactor file written over the analysed file itself.
RefactorPathInPlace(path) == Normalize(path)

\* refactorPath: <dir>/<basename without ext>.refactor<ext>
RefactorPath(path) ==
    PathJoin(dirname(path),
             basename(path, extname(path)) \o <<".refactor">> \o extname(path))

NoPath == <<>>

\* What a generator call did: how it ended ("returned" or "threw"), the path
\* it returned (isNull for the null sentinel) and the file it wrote, if any.
GenResult(status, isNull, path, wrote, text) ==
    [status |-> status, isNull |-> isNull, path |-> path,
     wrote |-> wrote, text |-> text]

\* The filter left out: every record is kept.
FlaggedAll(records) == records

\* results.filter(result => result.analysis.needsRefactor)
Flagged(results) ==
    SelectSeq(results, LAMBDA r : Truthy(r.analysis.needsRefactor))

\* The flattened prompt of formatRefactorPrompt.
FlattenPrompt(prompt) ==
    LET kept == SelectSeq(Split(prompt, "nl"),
                          LAMBDA line : /\ ~Includes(line, "Module Context")
                                        /\ Len(Trim(line)) > 0
                                        /\ ~Includes(line, "javascript"))
    IN  CollapseBlanks(Join([k \in 1..Len(kept) |-> Trim(kept[k])], <<"sp">>))

\* formatRefactorPrompt(result, index)
formatRefactorPrompt(result, index) ==
    <<ToString(index + 1), ".", "sp", "Function", "sp", "'">> \o result.name
      \o <<"'", ":", "sp">> \o FlattenPrompt(result.analysis.refactorPrompt.s)

\* The text the consolidated generator writes.
ConsolidatedContent(needsRefactoring, originalContent) ==
    <<"Refactor the following file, focusing on these", "sp",
      ToString(Len(needsRefactoring)), "sp", "functions:", "nl", "nl">>
      \o Join([i \in 1..Len(needsRefactoring) |->
                 formatRefactorPrompt(needsRefactoring[i], i - 1)], <<"nl">>)
      \o <<"nl", "nl", "FILE CONTENT:", "nl">>
      \o originalContent
      \o <<"nl", "nl", "Return only the complete refactored code">>

\* generateRefactorFile of the batched version; writeOk tells whether
\* fs.writeFile succeeds.  Calling split on a prompt that is no string
\* throws, and every exception is rethrown wrapped.
generateRefactorFileConsolidated(path, analysisResults, originalContent, writeOk) ==
    LET needsRefactoring == SortAscending(Flagged(analysisResults))
    IN  IF Len(needsRefactoring) = 0
        THEN GenResult("returned", TRUE, NoPath, FALSE, <<>>)
        ELSE IF \E i \in 1..Len(needsRefactoring) :
                  needsRefactoring[i].analysis.refactorPrompt.t # "string"
        THEN GenResult("threw", FALSE, NoPath, FALSE, <<>>)
        ELSE IF ~writeOk
        THEN GenResult("threw", FALSE, NoPath, FALSE, <<>>)
        ELSE GenResult("returned", FALSE, RefactorPath(path), TRUE,
                       ConsolidatedContent(needsRefactoring, originalContent))

\* refactorComment: the comment block of a prompt.
RefactorComment(prompt) ==
    LET lines == Split(prompt, "nl")
        commentLines ==
          Join([k \in 1..Len(lines) |-> <<"sp", "*", "sp">> \o Trim(lines[k])],
               <<"nl">>)
    IN  <<"nl", "/**", "nl", "sp", "*REFACTOR:", "nl">> \o commentLines
          \o <<"nl", "sp", "*/", "nl">>

\* The sort of the spliced generator left out.
SplicedOrderUnsorted(analysisResults) == Flagged(analysisResults)

\* sortedResults: descending by startIndex, then the flagged ones.
SplicedOrder(analysisResults) == Flagged(SortDescending(analysisResults))

RECURSIVE SpliceAll(_, _)
\* The for loop of the spliced generator over sortedResults: the content
\* after the insertions, thrown when split is called on a number.
SpliceAll(sortedResults, refactoredContent) ==
    IF Len(sortedResults) = 0 THEN [thrown |-> FALSE, text |-> refactoredContent]
    ELSE LET result == Head(sortedResults)
             prompt == result.analysis.refactorPrompt
         IN  IF ~Truthy(prompt)
             THEN SpliceAll(Tail(sortedResults), refactoredContent)
             ELSE IF prompt.t # "string"
             THEN [thrown |-> TRUE, text |-> refactoredContent]
             ELSE SpliceAll(Tail(sortedResults),
                            Slice(refactoredContent, 0, result.startIndex)
                              \o RefactorComment(prompt.s)
                              \o SliceFrom(refactoredContent, result.startIndex))

\* generateRefactorFile of the sequential version.
generateRefactorFileSpliced(path, analysisResults, originalContent, writeOk) ==
    LET spliced == SpliceAll(SplicedOrder(analysisResults), originalContent)
    IN  IF spliced.thrown \/ ~writeOk
        THEN GenResult("threw", FALSE, NoPath, FALSE, <<>>)
        ELSE GenResult("returned", FALSE, RefactorPath(path), TRUE, spliced.text)

-----------------------------------------------------------------------------
(* State *)

VARIABLES
    content,      \* the text of the analysed file
    scanned,      \* which scanner has run: "no", "batched" or "sequential"
    functions,    \* the records extractFunctions returned
    postText,     \* the postText extractFunctions returned
    response,     \* the accumulated reply handed to an analyzer
    parsed,       \* which analyzer has handled it: "no", "batched", "sequential"
    analysis,     \* the analysis that analyzer returned
    threw,        \* whether an exception left that analyzer
    filePath,     \* the path of the analysed file
    results,      \* analysisResults: the analysed records
    generated,    \* which generator has run: "no", "consolidated", "spliced"
    genResult,    \* what that generator call did
    written,      \* the files written so far, as <<path, text>> pairs in order
    disk,         \* the files that exist, as <<path, text>> pairs
    variant,      \* the program that runs: "batched", "sequential" or "none"
    arg,          \* process.argv[2]: "none", "--help", "-h" or "file"
    userPrompt,   \* process.argv[3]: undefined or a string
    analysisPrompt, \* the prompt buildAnalysisPrompt returned
    messages,     \* the user message of every chat call, in call order
    printed,      \* the lines the driver printed: usage, error and summary
    readable,     \* whether fs.readFile of the file succeeds
    batchSize,    \* BATCH_SIZE as configured
    pc,           \* where main is
    exit,         \* process.exit: its code (-1 while running) and its cause
    batches,      \* functionBatches
    batchIndex,   \* i of processBatches, the index of the for loop of main
    calls,        \* the chat calls of the current batch: "pending" or "done"
    slots,        \* what each analyzeFunction of the current batch resolved to
    order,        \* the positions of the current batch in completion order
    resolved,     \* how many analyzeFunctionBatch calls have resolved
    started,      \* the functions (by startIndex) whose chat call has started
    finished,     \* the functions whose chat call has completed or failed
    outcomes,     \* what chat gave for each of them, in completion order
    pauses,       \* how many times processBatches has slept between batches
    now,          \* Date.now() of the sample utilities
    cache,        \* their cache: the entry of each key, or NoEntry
    prefsFile,    \* the preferences file: whether it exists, its mtime, its data
    lastCall,     \* what the last call of a cached utility did
    loads         \* the calls of loadUserPreferences in flight, by caller

scanVars == <<content, scanned, functions, postText>>
parseVars == <<response, parsed, analysis, threw>>
genVars == <<filePath, results, generated, genResult, written, disk>>
runVars == <<variant, arg, userPrompt, analysisPrompt, messages, printed,
             readable, batchSize, pc, exit, batches, batchIndex,
             calls, slots, order, resolved, started, finished, outcomes,
             pauses>>
cacheVars == <<now, cache, prefsFile, lastCall, loads>>

vars == <<scanVars, parseVars, genVars, runVars, cacheVars>>

ScanIdle ==
    /\ content = <<>>
    /\ scanned = "no"
    /\ functions = <<>>
    /\ postText = <<>>

ParseIdle ==
    /\ response = <<>>
    /\ parsed = "no"
    /\ analysis = DefaultVerdict
    /\ threw = FALSE

NotGenerated == GenResult("none", FALSE, NoPath, FALSE, <<>>)

Running == [code |-> -1, cause |-> "none"]

RunIdle ==
    /\ variant = "none"
    /\ arg = "none"
    /\ userPrompt = JsUndefined
    /\ analysisPrompt = <<>>
    /\ messages = <<>>
    /\ printed = <<>>
    /\ readable = TRUE
    /\ batchSize = 1
    /\ pc = "idle"
    /\ exit = Running
    /\ batches = <<>>
    /\ batchIndex = 0
    /\ calls = <<>>
    /\ slots = <<>>
    /\ order = <<>>
    /\ resolved = 0
    /\ started = {}
    /\ finished = {}
    /\ outcomes = <<>>
    /\ pauses = 0

GenIdle ==
    /\ filePath = NoPath
    /\ results = <<>>
    /\ generated = "no"
    /\ genResult = NotGenerated
    /\ written = <<>>
    /\ disk = {}

NoEntry ==
    [present |-> FALSE, data |-> "none", timestamp |-> 0, lastModified |-> -1]

NoCall == [fn |-> "none", key |-> "none", outcome |-> "none", time |-> 0,
           hit |-> FALSE, timestamp |-> 0, data |-> "none", stored |-> FALSE]

CacheKeys == {"users", "report", "prefs"}

\* The callers of loadUserPreferences that can be in flight together.
Callers == {1, 2}

\* A call of loadUserPreferences: where it is ("idle" before the call,
\* "stat" and "read" at its two awaits, "done"), its cachedPrefs, the mtime
\* of its stats, how it ended, whether it read the file, the entry it
\* stored, the rank of its cache.set among those of all callers, and how
\* many of those had been done when it was called.
NoLoad ==
    [stage |-> "idle", cachedPrefs |-> NoEntry, mtime |-> -1,
     outcome |-> "none", read |-> FALSE, stored |-> NoEntry, rank |-> 0,
     seen |-> 0]

CacheIdle ==
    /\ now = 0
    /\ cache = [k \in CacheKeys |-> NoEntry]
    /\ prefsFile = [exists |-> FALSE, mtime |-> 0, data |-> "light"]
    /\ lastCall = NoCall
    /\ loads = [c \in Callers |-> NoLoad]

-----------------------------------------------------------------------------
(* The scanner applied to every file content within the bounds *)

MaxPieces == 3

\* A plain declaration, an async declaration with a nested block, a
\* const-bound function expression and a REFACTOR: marker comment.
PlainFunction == <<"function", "sp", "id", "(", ")", "{", "}">>
AsyncFunction ==
    <<"async", "sp", "function", "sp", "id", "(", ")", "{", "{", "}", "}">>
ConstFunction ==
    <<"const", "sp", "id", "=", "function", "(", ")", "{", "id", "}">>
MarkerComment == <<"/**", "nl", "*REFACTOR:", "id", "*/", "nl">>

\* The pieces a file content is put together from.
Pieces ==
    {PlainFunction, AsyncFunction, ConstFunction, MarkerComment}
      \cup {<<c>> : c \in {"id", "sp", "function", "(", "{", "}", "/**", "*/"}}

RECURSIVE PieceLists(_)
\* The sequences of at most n pieces.
PieceLists(n) ==
    IF n = 0 THEN {<<>>}
    ELSE LET shorter == PieceLists(n - 1)
         IN  shorter \cup {Append(l, p) : l \in shorter, p \in Pieces}

\* The file contents: no comment opener directly follows another.
Contents ==
    {s \in {Concat(l) : l \in PieceLists(MaxPieces)} :
       \A k \in 1..(Len(s) - 1) : ~(s[k] = "/**" /\ s[k + 1] = "/**")}

InitScan ==
    /\ content \in Contents
    /\ scanned = "no"
    /\ functions = <<>>
    /\ postText = <<>>
    /\ ParseIdle
    /\ GenIdle
    /\ RunIdle
    /\ CacheIdle

ScanBatched ==
    /\ scanned = "no"
    /\ LET r == extractFunctionsBatched(content)
       IN  /\ functions' = r.functions
           /\ postText' = r.postText
    /\ scanned' = "batched"
    /\ UNCHANGED <<content, parseVars, genVars, runVars, cacheVars>>

ScanSequential ==
    /\ scanned = "no"
    /\ LET r == extractFunctionsSequential(content)
       IN  /\ functions' = r.functions
           /\ postText' = r.postText
    /\ scanned' = "sequential"
    /\ UNCHANGED <<content, parseVars, genVars, runVars, cacheVars>>

NextScan == ScanBatched \/ ScanSequential

SpecScan == InitScan /\ [][NextScan]_vars

-----------------------------------------------------------------------------
(* The generators applied to every list of analysed records within the bounds *)

MaxGenLen == 2
MaxRecords == 2

GenAlphabet == <<"c1", "c2", "c3", "c4", "c5", "c6">>

\* The original contents: texts whose characters are all different.
GenContents == {SubSeq(GenAlphabet, 1, n) : n \in 0..MaxGenLen}

\* The prompts of the data model: null, the empty string, one line, two
\* lines with blanks to trim, and prompts with a line the consolidated
\* generator drops: a mention of the module context, a code fence with its
\* language tag, a sentence that holds the word javascript.
GenPrompts ==
    {JsNull, JsString(<<>>), JsString(<<"p">>),
     JsString(<<"p", "sp", "nl", "sp", "p", "p">>),
     JsString(<<"Module Context", "p", "nl", "p">>),
     JsString(<<"p", "nl", "fence", "javascript", "nl", "p">>),
     JsString(<<"p", "sp", "javascript", "nl", "p">>)}

GenVerdicts ==
    [needsRefactor : {JsTrue, JsFalse}, refactorPrompt : GenPrompts]

\* The name of the function found at offset i: every function has its own.
NameAt(i) == <<"id", ToString(i)>>

GenRecords(text) ==
    {[name |-> NameAt(i), startIndex |-> i, analysis |-> v] :
       i \in 0..Len(text), v \in GenVerdicts}

RECURSIVE RecordLists(_, _)
\* The lists of at most n records over text, in any order, no two with the
\* same startIndex.
RecordLists(text, n) ==
    IF n = 0 THEN {<<>>}
    ELSE LET shorter == RecordLists(text, n - 1)
         IN  shorter \cup
             {Append(p[1], p[2]) :
                p \in {q \in shorter \X GenRecords(text) :
                         \A k \in 1..Len(q[1]) :
                           q[1][k].startIndex # q[2].startIndex}}

SamplePath == <<"src", "/", "utils", ".js">>

InitGen ==
    /\ content \in GenContents
    /\ scanned = "no"
    /\ functions = <<>>
    /\ postText = <<>>
    /\ ParseIdle
    /\ filePath = SamplePath
    /\ results \in RecordLists(content, MaxRecords)
    /\ generated = "no"
    /\ genResult = NotGenerated
    /\ written = <<>>
    /\ disk = {<<Normalize(filePath), content>>}
    /\ RunIdle
    /\ CacheIdle

\* fs.writeFile(p, t): the file at p holds t and nothing else.
WriteFile(files, p, t) ==
    {f \in files : f[1] # Normalize(p)} \cup {<<Normalize(p), t>>}

\* The write of a generator call done whether or not the call got that far.
WrittenAfterAlways(r) == Append(written, <<r.path, r.text>>)

\* The writes after a generator call.
WrittenAfter(r) ==
    IF r.wrote THEN Append(written, <<r.path, r.text>>) ELSE written

\* The files after a generator call.
DiskAfter(r) ==
    IF r.wrote THEN WriteFile(disk, r.path, r.text) ELSE disk

GenerateConsolidated ==
    /\ generated = "no"
    /\ \E writeOk \in BOOLEAN :
         LET r == generateRefactorFileConsolidated(filePath, results, content, writeOk)
         IN  /\ genResult' = r
             /\ written' = WrittenAfter(r)
             /\ disk' = DiskAfter(r)
    /\ generated' = "consolidated"
    /\ UNCHANGED <<filePath, results, scanVars, parseVars, runVars, cacheVars>>

GenerateSpliced ==
    /\ generated = "no"
    /\ \E writeOk \in BOOLEAN :
         LET r == generateRefactorFileSpliced(filePath, results, content, writeOk)
         IN  /\ genResult' = r
             /\ written' = WrittenAfter(r)
             /\ disk' = DiskAfter(r)
    /\ generated' = "spliced"
    /\ UNCHANGED <<filePath, results, scanVars, parseVars, runVars, cacheVars>>

NextGen == GenerateConsolidated \/ GenerateSpliced

SpecGen == InitGen /\ [][NextGen]_vars

-----------------------------------------------------------------------------
(* The generators applied to every path of a set of sample paths *)

\* The paths given on the command line: relative and absolute ones, with and
\* without an extension, a dot file, and the path of a refactor file.
PathSamples ==
    {<<"utils", ".js">>, <<".", "/", "utils", ".js">>,
     <<"src", "/", "utils", ".js">>, <<"/", "utils", ".js">>,
     <<"utils">>, <<".hidden">>, <<"src", "/", ".hidden", ".js">>,
     <<"utils", ".refactor", ".js">>}

\* What a refactor file of an earlier run holds.
OldText == <<"old", "old", "old", "old", "old", "old", "old", "old">>

InitPath ==
    /\ content = <<"c1", "c2">>
    /\ scanned = "no"
    /\ functions = <<>>
    /\ postText = <<>>
    /\ ParseIdle
    /\ filePath \in PathSamples
    /\ results \in RecordLists(content, 1)
    /\ generated = "no"
    /\ genResult = NotGenerated
    /\ written = <<>>
    /\ \E earlier \in BOOLEAN :
         disk = {<<Normalize(filePath), content>>}
                  \cup (IF earlier THEN {<<RefactorPath(filePath), OldText>>} ELSE {})
    /\ RunIdle
    /\ CacheIdle

SpecPath == InitPath /\ [][NextGen]_vars

-----------------------------------------------------------------------------
(* The two drivers *)

MaxFunctions == 3
MaxBatchSize == 2

\* The k-th function of a driver's file: plain and async declarations in turn.
DriverFunction(k) == IF k % 2 = 1 THEN PlainFunction ELSE AsyncFunction

\* The files of the drivers: n functions, each on a line of its own, and a
\* file of text that holds no function.
DriverContents ==
    {Concat([k \in 1..n |-> <<"nl">> \o DriverFunction(k)]) : n \in 0..MaxFunctions}
      \cup {<<"id", "sp", "id", ";", "nl">>}

\* process.argv[3]: missing, the empty string, or a requirement of two lines.
UserPrompts == {JsUndefined, JsString(<<>>), JsString(<<"req", "nl", "req">>)}

\* What a chat call can give: a rejection (the request or its stream
\* failed), or a reply: a verdict with a prompt, a verdict without, a verdict
\* that asks for a refactor and has no prompt, an object without the two
\* keys, text that is no JSON, and prose.
ChatOutcomes ==
    {[kind |-> "reject", reply |-> <<>>]}
      \cup {[kind |-> "reply", reply |-> r] :
              r \in {<<"{", StringOpen, "p", StringClose, "}">>,
                     <<"{", "nr:false,rp:null", "}">>,
                     <<"{", "nr:true,rp:null", "}">>,
                     <<"{", "note:1", "}">>,
                     <<"{", "p", "}">>,
                     <<"p", "sp", "p">>}}

\* The prompt built without looking at the user's request.
buildAnalysisPromptNoRequest(userFeatureRequest) ==
    <<"DEFAULT_ANALYSIS_PROMPT", "nl", "nl",
      "Return your analysis in this exact JSON format">>

\* buildAnalysisPrompt: the rubric, the user's request under its heading when
\* it is truthy, and the instruction about the JSON format.
buildAnalysisPrompt(userFeatureRequest) ==
    <<"DEFAULT_ANALYSIS_PROMPT">>
      \o (IF Truthy(userFeatureRequest)
          THEN <<"nl", "Additional requirements:", "nl">> \o userFeatureRequest.s
          ELSE <<>>)
      \o <<"nl", "nl", "Return your analysis in this exact JSON format">>

\* createContextMessage: the files of the drivers hold no import and no
\* module-level declaration, so the two lists are empty.
createContextMessage(functionData) ==
    <<"nl", "Module Imports:", "nl", "nl", "nl",
      "Module-Level Declarations:", "nl", "nl", "nl",
      "Function Definition:", "nl">> \o functionData.code \o <<"nl">>

\* The content of the user message of analyzeFunction.
UserMessageBatched(prompt, functionData) ==
    prompt \o <<"nl", "nl", "Module Context and Function to Analyze:", "nl">>
      \o createContextMessage(functionData)

\* The content of the user message of analyzeFunctionForRefactoring.
UserMessageSequential(prompt, functionCode) ==
    prompt \o <<"nl", "nl", "Function to analyze:", "nl">> \o functionCode

\* The array given to processBatches with the chunking left out.
chunkArrayWhole(array, size) == IF Len(array) = 0 THEN <<>> ELSE <<array>>

\* Math.floor(length / size) + 1 slices: one more than needed when size
\* divides the length, an empty one for an empty array.
chunkArrayOneMore(array, size) ==
    [index \in 1..((Len(array) \div size) + 1) |->
       Slice(array, (index - 1) * size, index * size)]

\* Math.floor(length / size) slices: the records after the last full slice
\* are left out.
chunkArrayFloor(array, size) ==
    [index \in 1..(Len(array) \div size) |->
       Slice(array, (index - 1) * size, index * size)]

\* chunkArray: Math.ceil(length / size) slices of size records.
chunkArray(array, size) ==
    [index \in 1..((Len(array) + size - 1) \div size) |->
       Slice(array, (index - 1) * size, index * size)]

\* { ...functionData, analysis }
WithAnalysis(functionData, a) ==
    [f \in (DOMAIN functionData) \cup {"analysis"} |->
       IF f = "analysis" THEN a ELSE functionData[f]]

\* analyzeFunction: the record one call of the batch resolves to.  The call
\* of chat and the parse are inside its try block.
analyzeFunction(functionData, outcome) ==
    WithAnalysis(functionData,
                 IF outcome.kind = "reject" THEN DefaultVerdict
                 ELSE ParseBatched(outcome.reply).analysis)

\* analyzeFunctionForRefactoring: the call of chat is outside its try block.
analyzeFunctionForRefactoring(outcome) ==
    IF outcome.kind = "reject"
    THEN [threw |-> TRUE, analysis |-> DefaultVerdict]
    ELSE ParseSequential(outcome.reply)

\* The promises of a batch gathered in the order they settled.
PromiseAllByCompletion(resolvedSlots, completionOrder) ==
    [k \in 1..Len(completionOrder) |-> resolvedSlots[completionOrder[k]]]

\* Promise.all: the values in the order of the promises.
PromiseAll(resolvedSlots, completionOrder) == resolvedSlots

Exited(code, cause) == [code |-> code, cause |-> cause]

\* The exit status of the usage branch with the two statuses exchanged.
UsageExitCodeExchanged(a) == IF a = "none" THEN 0 ELSE 1

\* process.exit(filePath ? 0 : 1)
UsageExitCode(a) == IF a = "none" THEN 1 ELSE 0

\* The loop of processBatches without its pause.
PauseDueNever(i, length) == FALSE

\* if (i < functionBatches.length - 1): a pause follows batch i.
PauseDue(i, length) == i < length - 1

\* What the run is given: these never change.
inputVars == <<variant, arg, userPrompt, readable, batchSize>>

InitRun ==
    /\ content \in DriverContents
    /\ scanned = "no"
    /\ functions = <<>>
    /\ postText = <<>>
    /\ ParseIdle
    /\ filePath = SamplePath
    /\ results = <<>>
    /\ generated = "no"
    /\ genResult = NotGenerated
    /\ written = <<>>
    /\ variant \in {"batched", "sequential"}
    /\ arg \in {"none", "--help", "-h", "file"}
    /\ userPrompt \in UserPrompts
    /\ analysisPrompt = <<>>
    /\ messages = <<>>
    /\ printed = <<>>
    /\ readable \in BOOLEAN
    /\ disk = IF readable THEN {<<Normalize(filePath), content>>} ELSE {}
    /\ batchSize \in 1..MaxBatchSize
    /\ (variant = "sequential" => batchSize = 1)
    /\ pc = "start"
    /\ exit = Running
    /\ batches = <<>>
    /\ batchIndex = 0
    /\ calls = <<>>
    /\ slots = <<>>
    /\ order = <<>>
    /\ resolved = 0
    /\ started = {}
    /\ finished = {}
    /\ outcomes = <<>>
    /\ pauses = 0
    /\ CacheIdle

\* parseArguments and buildAnalysisPrompt, and the same steps of the
\* sequential main.
ParseArguments ==
    /\ pc = "start"
    /\ IF arg = "file"
       THEN /\ analysisPrompt' = buildAnalysisPrompt(userPrompt)
            /\ pc' = "extract"
            /\ UNCHANGED <<exit, printed>>
       ELSE /\ printed' = Append(printed, "Usage:")
            /\ pc' = "exited"
            /\ exit' = Exited(UsageExitCode(arg), "usage")
            /\ UNCHANGED analysisPrompt
    /\ UNCHANGED <<scanVars, parseVars, genVars, cacheVars, inputVars, pauses, messages,
                   batches, batchIndex, calls, slots, order, resolved, started,
                   finished, outcomes>>

\* extractFunctions, then chunkArray in the batched main.
Extract ==
    /\ pc = "extract"
    /\ IF ~readable
       THEN /\ printed' = Append(printed, "Error:")
            /\ pc' = "exited"
            /\ exit' = Exited(1, "extract")
            /\ UNCHANGED <<scanned, functions, postText, batches>>
       ELSE LET r == IF variant = "batched" THEN extractFunctionsBatched(content)
                     ELSE extractFunctionsSequential(content)
                b == IF variant = "batched" THEN chunkArray(r.functions, batchSize)
                     ELSE <<>>
            IN  /\ scanned' = variant
                /\ functions' = r.functions
                /\ postText' = r.postText
                /\ batches' = b
                /\ pc' = IF variant = "batched"
                         THEN (IF Len(b) = 0 THEN "summary" ELSE "batch")
                         ELSE (IF Len(r.functions) = 0 THEN "summary" ELSE "loop")
                /\ UNCHANGED <<exit, printed>>
    /\ UNCHANGED <<content, parseVars, genVars, cacheVars, inputVars, pauses,
                   analysisPrompt, messages, batchIndex, calls, slots, order,
                   resolved, started, finished, outcomes>>

\* One turn of processBatches: analyzeFunctionBatch checks its arguments,
\* maps analyzeFunction over the batch, and every call runs up to its await
\* of chat.
StartBatch ==
    /\ pc = "batch"
    /\ LET batch == batches[batchIndex + 1]
       IN  IF Len(batch) = 0 \/ Len(analysisPrompt) = 0
           THEN /\ printed' = Append(printed, "Error:")
                /\ pc' = "exited"
                /\ exit' = Exited(1, "analyze")
                /\ UNCHANGED <<calls, slots, order, started, messages>>
           ELSE /\ calls' = [k \in 1..Len(batch) |-> "pending"]
                /\ slots' = [k \in 1..Len(batch) |-> WithAnalysis(batch[k], DefaultVerdict)]
                /\ order' = <<>>
                /\ started' = started \cup {batch[k].startIndex : k \in 1..Len(batch)}
                /\ messages' = messages \o
                     [k \in 1..Len(batch) |->
                        [id |-> batch[k].startIndex,
                         content |-> UserMessageBatched(analysisPrompt, batch[k])]]
                /\ pc' = "await"
                /\ UNCHANGED <<exit, printed>>
    /\ UNCHANGED <<scanVars, parseVars, genVars, cacheVars, inputVars, pauses,
                   analysisPrompt, batches, batchIndex, resolved, finished,
                   outcomes>>

\* The chat call of position k of the batch completes or fails, and its
\* analyzeFunction runs to its end.
ChatCompletes(k) ==
    /\ pc = "await"
    /\ calls[k] = "pending"
    /\ \E outcome \in ChatOutcomes :
         LET functionData == batches[batchIndex + 1][k]
         IN  /\ slots' = [slots EXCEPT ![k] = analyzeFunction(functionData, outcome)]
             /\ outcomes' = Append(outcomes,
                                   [id |-> functionData.startIndex, outcome |-> outcome])
             /\ finished' = finished \cup {functionData.startIndex}
    /\ calls' = [calls EXCEPT ![k] = "done"]
    /\ order' = Append(order, k)
    /\ UNCHANGED <<scanVars, parseVars, genVars, cacheVars, inputVars, pauses,
                   analysisPrompt, messages, printed, pc, exit, batches,
                   batchIndex, resolved, started>>

\* Promise.all of the batch resolves; processBatches pushes the results and
\* goes to sleep when a pause is due, and otherwise goes on with the loop:
\* the next batch, or its return after the last one.
BatchResolves ==
    /\ pc = "await"
    /\ \A k \in 1..Len(calls) : calls[k] = "done"
    /\ results' = results \o PromiseAll(slots, order)
    /\ resolved' = resolved + 1
    /\ IF PauseDue(batchIndex, Len(batches))
       THEN /\ pc' = "sleep"
            /\ UNCHANGED batchIndex
       ELSE IF batchIndex + 1 < Len(batches)
       THEN /\ pc' = "batch"
            /\ batchIndex' = batchIndex + 1
       ELSE /\ pc' = "summary"
            /\ UNCHANGED batchIndex
    /\ UNCHANGED <<scanVars, parseVars, filePath, generated, genResult, written,
                   disk, cacheVars, inputVars, pauses, analysisPrompt, messages,
                   printed, exit, batches, calls, slots, order, started,
                   finished, outcomes>>

\* sleep(BATCH_DELAY) is over: the next turn of the loop.
Sleep ==
    /\ pc = "sleep"
    /\ pauses' = pauses + 1
    /\ batchIndex' = batchIndex + 1
    /\ pc' = "batch"
    /\ UNCHANGED <<scanVars, parseVars, genVars, cacheVars, inputVars,
                   analysisPrompt, messages, printed, exit, batches, calls,
                   slots, order, resolved, started, finished, outcomes>>

\* One turn of the for loop of the sequential main, up to the await of chat
\* in analyzeFunctionForRefactoring.
CallAnalyzer ==
    /\ pc = "loop"
    /\ LET func == functions[batchIndex + 1]
       IN  /\ started' = started \cup {func.startIndex}
           /\ messages' = Append(messages,
                                 [id |-> func.startIndex,
                                  content |-> UserMessageSequential(analysisPrompt,
                                                                    func.code)])
    /\ pc' = "awaitOne"
    /\ UNCHANGED <<scanVars, parseVars, genVars, cacheVars, inputVars, pauses,
                   analysisPrompt, printed, exit, batches, batchIndex, calls,
                   slots, order, resolved, finished, outcomes>>

\* The chat call of the sequential analyzer completes or fails; an exception
\* that leaves the analyzer is caught by main, which exits with 1.
AnalyzerReturns ==
    /\ pc = "awaitOne"
    /\ \E outcome \in ChatOutcomes :
         LET func == functions[batchIndex + 1]
             r == analyzeFunctionForRefactoring(outcome)
         IN  /\ outcomes' = Append(outcomes, [id |-> func.startIndex, outcome |-> outcome])
             /\ finished' = finished \cup {func.startIndex}
             /\ IF r.threw
                THEN /\ printed' = Append(printed, "Error:")
                     /\ pc' = "exited"
                     /\ exit' = Exited(1, "analyze")
                     /\ UNCHANGED <<results, batchIndex>>
                ELSE /\ results' = Append(results, WithAnalysis(func, r.analysis))
                     /\ batchIndex' = batchIndex + 1
                     /\ pc' = IF batchIndex + 1 < Len(functions) THEN "loop" ELSE "summary"
                     /\ UNCHANGED <<exit, printed>>
    /\ UNCHANGED <<scanVars, parseVars, filePath, generated, genResult, written,
                   disk, cacheVars, inputVars, pauses, analysisPrompt, messages, batches,
                   calls, slots, order, resolved, started>>

\* The end of main: the generator is called when some record is flagged,
\* and the summary is printed.
Summary ==
    /\ pc = "summary"
    /\ IF \E j \in 1..Len(results) : Truthy(results[j].analysis.needsRefactor)
       THEN \E writeOk \in BOOLEAN :
              LET r == IF variant = "batched"
                       THEN generateRefactorFileConsolidated(filePath, results, content, writeOk)
                       ELSE generateRefactorFileSpliced(filePath, results, content, writeOk)
              IN  /\ generated' = IF variant = "batched" THEN "consolidated" ELSE "spliced"
                  /\ genResult' = r
                  /\ written' = WrittenAfter(r)
                  /\ disk' = DiskAfter(r)
                  /\ IF r.status = "threw"
                     THEN /\ printed' = Append(printed, "Error:")
                          /\ pc' = "exited"
                          /\ exit' = Exited(1, "generate")
                     ELSE /\ printed' = Append(printed,
                                 "Refactoring prompts have been written to:")
                          /\ pc' = "done"
                          /\ exit' = Exited(0, "end")
       ELSE /\ printed' = Append(printed, "No functions require refactoring!")
            /\ pc' = "done"
            /\ exit' = Exited(0, "end")
            /\ UNCHANGED <<generated, genResult, written, disk>>
    /\ UNCHANGED <<scanVars, parseVars, filePath, results, cacheVars, inputVars, pauses,
                   analysisPrompt, messages, batches, batchIndex, calls, slots,
                   order, resolved, started, finished, outcomes>>

Next ==
    \/ ParseArguments
    \/ Extract
    \/ StartBatch
    \/ \E k \in DOMAIN calls : ChatCompletes(k)
    \/ BatchResolves
    \/ Sleep
    \/ CallAnalyzer
    \/ AnalyzerReturns
    \/ Summary

Spec == InitRun /\ [][Next]_vars

\* main can take a step by itself: it is at a statement that needs nothing,
\* or at an await that settles without the chat capability (reading the
\* file, the timer of sleep, writing the file, Promise.all of a batch whose
\* calls have all completed).
MainCanStep ==
    \/ pc \in {"start", "extract", "batch", "sleep", "loop", "summary"}
    \/ pc = "await" /\ \A k \in DOMAIN calls : calls[k] = "done"

Places ==
    {"start", "extract", "batch", "await", "sleep", "loop", "awaitOne",
     "summary", "done", "exited"}

\* The step main then takes: the one action of Next that is enabled there,
\* which always leaves the place.
MainStep == MainCanStep /\ pc' \in Places \ {pc}

\* The drivers with the event loop running main whenever it can go on;
\* nothing is assumed of the chat capability.
SpecLive == Spec /\ WF_pc(MainStep)

-----------------------------------------------------------------------------
(* Properties of the scanner *)

\* The text between the previous record's end (or 0) and record i's start.
Gap(i) ==
    Slice(content, IF i = 1 THEN 0 ELSE functions[i - 1].endIndex,
          functions[i].startIndex)

\* C7: the records of either scanner are strictly ascending by startIndex,
\* every span is non-empty and inside the content, and no two spans overlap.
C7_OrderedDisjointSpans ==
    scanned # "no" =>
      /\ \A i \in 1..Len(functions) :
           /\ 0 <= functions[i].startIndex
           /\ functions[i].startIndex < functions[i].endIndex
           /\ functions[i].endIndex <= Len(content)
      /\ \A i \in 1..(Len(functions) - 1) :
           /\ functions[i].startIndex < functions[i + 1].startIndex
           /\ functions[i].endIndex <= functions[i + 1].startIndex

\* C7 witness: the batched scanner returned two functions with text between
\* them.
C7_Witness ==
    /\ scanned = "batched"
    /\ Len(functions) = 2
    /\ functions[1].endIndex < functions[2].startIndex

\* C8 as stated: preText and code of every record, then postText, give back
\* the content.
C8_PreTextRoundTrip ==
    scanned # "no" =>
      Concat([i \in 1..Len(functions) |->
                functions[i].preText \o functions[i].code]) \o postText
        = content

\* C8 amended: the gaps and the codes of the records, then postText, give back
\* the content; the sequential scanner's preText is the whole gap, the batched
\* scanner's preText is empty or a part of the gap.
C8_GapRoundTrip ==
    scanned # "no" =>
      /\ Concat([i \in 1..Len(functions) |-> Gap(i) \o functions[i].code])
           \o postText = content
      /\ \A i \in 1..Len(functions) :
           /\ functions[i].code
                = Slice(content, functions[i].startIndex, functions[i].endIndex)
           /\ scanned = "sequential" => functions[i].preText = Gap(i)
           /\ scanned = "batched" =>
                \/ functions[i].preText = <<>>
                \/ \E a \in 0..Len(Gap(i)) :
                     functions[i].preText
                       = Slice(Gap(i), a, a + Len(functions[i].preText))

\* C8 witness: the batched scanner returned a function that follows text
\* holding no marker, and text is left after the function.
C8_Witness ==
    /\ scanned = "batched"
    /\ Len(functions) = 1
    /\ Len(Gap(1)) > 0
    /\ functions[1].preText = <<>>
    /\ Len(postText) > 0

-----------------------------------------------------------------------------
(* The analyzers applied to every reply within the bounds *)

MaxReplyPieces == 3

\* JSON objects: the four whole-member objects, one whose prompt has two
\* lines and one whose prompt holds a fence marker and braces.
ReplyObjects ==
    {<<"{", m, "}">> : m \in WholeMembers}
      \cup {<<"{", StringOpen, "p", "esc:nl", "p", StringClose, "}">>,
            <<"{", "sp", StringOpen, "fence", "sp", "{", "}", StringClose, "nl", "}">>}

\* Fenced code blocks, without and with braces.
ReplyFences ==
    {<<"fence", "json", "nl", "p", "nl", "fence", "nl">>,
     <<"fence", "{", "p", "}", "fence">>}

\* The pieces a reply is put together from.
ReplyPieces ==
    ReplyObjects \cup ReplyFences
      \cup {<<c>> : c \in {"{", "}", "p", "fence"}}

RECURSIVE ReplyLists(_)
\* The sequences of at most n reply pieces.
ReplyLists(n) ==
    IF n = 0 THEN {<<>>}
    ELSE LET shorter == ReplyLists(n - 1)
         IN  shorter \cup {Append(l, p) : l \in shorter, p \in ReplyPieces}

Replies == {Concat(l) : l \in ReplyLists(MaxReplyPieces)}

InitParse ==
    /\ ScanIdle
    /\ GenIdle
    /\ RunIdle
    /\ CacheIdle
    /\ response \in Replies
    /\ parsed = "no"
    /\ analysis = DefaultVerdict
    /\ threw = FALSE

AnalyzeBatched ==
    /\ parsed = "no"
    /\ LET r == ParseBatched(response)
       IN  /\ analysis' = r.analysis
           /\ threw' = r.threw
    /\ parsed' = "batched"
    /\ UNCHANGED <<response, scanVars, genVars, runVars, cacheVars>>

AnalyzeSequential ==
    /\ parsed = "no"
    /\ LET r == ParseSequential(response)
       IN  /\ analysis' = r.analysis
           /\ threw' = r.threw
    /\ parsed' = "sequential"
    /\ UNCHANGED <<response, scanVars, genVars, runVars, cacheVars>>

NextParse == AnalyzeBatched \/ AnalyzeSequential

SpecParse == InitParse /\ [][NextParse]_vars

-----------------------------------------------------------------------------
(* Properties of the analyzers *)

HasBrace(s) == \E k \in 1..Len(s) : s[k] \in {"{", "}"}
HasFence(s) == \E k \in 1..Len(s) : s[k] = "fence"

\* A fenced code block: from a fence marker to the next one.
IsFencedBlock(s) ==
    /\ Len(s) >= 2
    /\ s[1] = "fence"
    /\ s[Len(s)] = "fence"
    /\ ~HasFence(Slice(s, 1, Len(s) - 1))

\* The reply is prose up to a, a fenced block up to b, then a JSON object.
ProseFenceJson(a, b) ==
    /\ ~HasFence(Slice(response, 0, a))
    /\ IsFencedBlock(Slice(response, a, b))
    /\ JsonParse(SliceFrom(response, b)).ok

\* A verdict of the data model: a boolean and a string or null.
WellTyped(v) ==
    /\ v.needsRefactor.t \in {"true", "false"}
    /\ v.refactorPrompt.t \in {"string", "null"}

\* C9 as stated: whatever the prose and the fenced block hold, the analysis
\* is the verdict of the trailing JSON object.
C9_TrailingObjectAlways ==
    parsed # "no" =>
      \A a \in 0..Len(response), b \in 0..Len(response) :
        (ProseFenceJson(a, b) /\ WellTyped(JsonParse(SliceFrom(response, b)).value)) =>
          analysis = JsonParse(SliceFrom(response, b)).value

\* C9 amended: when neither the prose nor the fenced block holds a brace, the
\* analysis is the trailing JSON object's (for the sequential analyzer, the
\* object's after the fence markers have been deleted from it).
C9_TrailingObjectIfNoBraces ==
    parsed # "no" =>
      \A a \in 0..Len(response), b \in 0..Len(response) :
        (ProseFenceJson(a, b) /\ ~HasBrace(Slice(response, 0, b))) =>
          /\ ~threw
          /\ parsed = "batched" =>
               analysis = JsonParse(SliceFrom(response, b)).value
          /\ parsed = "sequential" =>
               /\ JsonParse(CleanResult(SliceFrom(response, b))).ok
               /\ analysis = JsonParse(CleanResult(SliceFrom(response, b))).value
               /\ ~HasFence(SliceFrom(response, b)) =>
                    analysis = JsonParse(SliceFrom(response, b)).value

\* C9 witness: prose, a fenced block without braces and a trailing object
\* that asks for a refactor with a prompt, handled by the batched analyzer.
C9_Witness ==
    /\ parsed = "batched"
    /\ \E a \in 1..Len(response), b \in 1..Len(response) :
         /\ ProseFenceJson(a, b)
         /\ ~HasBrace(Slice(response, 0, b))
    /\ analysis.needsRefactor = JsTrue
    /\ analysis.refactorPrompt.t = "string"

\* No opening brace has a closing brace after it.
NoBracePair(s) ==
    \A i \in 1..Len(s), j \in 1..Len(s) : (s[i] = "{" /\ s[j] = "}") => j < i

\* C10: a reply with no opening brace, no closing brace, or every closing
\* brace before every opening one gets the default verdict, and no exception
\* leaves the analyzer.
C10_NoBracesDefault ==
    (parsed # "no" /\ NoBracePair(response)) =>
      (analysis = DefaultVerdict /\ ~threw)

\* C10 witness: the sequential analyzer handled a reply whose only closing
\* brace precedes its only opening brace.
C10_Witness ==
    /\ parsed = "sequential"
    /\ \E i \in 1..Len(response), j \in 1..Len(response) :
         /\ j < i
         /\ response[i] = "{"
         /\ response[j] = "}"
    /\ NoBracePair(response)
    /\ analysis = DefaultVerdict

-----------------------------------------------------------------------------
(* Properties of the generators *)

NoneFlagged == \A i \in 1..Len(results) : results[i].analysis.needsRefactor # JsTrue

\* C5: when no record has needsRefactor = true, either generator writes no
\* file and what it returns is the null sentinel.
C5_NullAndNoWrite ==
    (generated # "no" /\ NoneFlagged) =>
      /\ written = <<>>
      /\ genResult.status = "returned" => genResult.isNull

\* The comment block the spliced generator owes the record at offset p: the
\* block of the flagged record that starts there, if it has a prompt.
BlockAt(p) ==
    IF \E i \in 1..Len(results) :
         /\ results[i].startIndex = p
         /\ results[i].analysis.needsRefactor = JsTrue
         /\ Truthy(results[i].analysis.refactorPrompt)
    THEN RefactorComment(
           results[CHOOSE i \in 1..Len(results) :
                     /\ results[i].startIndex = p
                     /\ results[i].analysis.needsRefactor = JsTrue
                     /\ Truthy(results[i].analysis.refactorPrompt)]
             .analysis.refactorPrompt.s)
    ELSE <<>>

\* The original content with every block put in front of the character that
\* stood at its record's startIndex.
ContentWithBlocks ==
    Concat([k \in 1..(Len(content) + 1) |->
              BlockAt(k - 1) \o (IF k <= Len(content) THEN <<content[k]>> ELSE <<>>)])

\* C6: the spliced generator writes the original content with each flagged
\* record's comment block inserted at that record's original startIndex, and
\* the content itself when no record is flagged.
C6_BlocksAtOriginalOffsets ==
    (generated = "spliced" /\ genResult.status = "returned") =>
      /\ Len(written) = 1
      /\ written[1][2] = ContentWithBlocks
      /\ NoneFlagged => written[1][2] = content

\* C6 witness: two flagged records with prompts, passed in ascending order
\* of startIndex, the second one inside the content.
C6_Witness ==
    /\ generated = "spliced"
    /\ genResult.status = "returned"
    /\ Len(results) = 2
    /\ results[1].startIndex < results[2].startIndex
    /\ results[2].startIndex < Len(content)
    /\ \A i \in 1..2 :
         /\ results[i].analysis.needsRefactor = JsTrue
         /\ Truthy(results[i].analysis.refactorPrompt)

-----------------------------------------------------------------------------
(* Properties of the drivers *)

\* The analysed records held so far: the pushed ones and the ones the
\* current batch has resolved.
Stored ==
    {results[j] : j \in 1..Len(results)}
      \cup {slots[k] : k \in {x \in 1..Len(slots) : calls[x] = "done"}}

\* What chat gave for the function that starts at id.
OutcomeOf(id) ==
    outcomes[CHOOSE n \in 1..Len(outcomes) : outcomes[n].id = id].outcome

\* A failed analysis: chat rejected, or the reply is no JSON object.
Failed(outcome) == outcome.kind = "reject" \/ ~JsonParse(outcome.reply).ok

\* C1: a function whose chat call or reply handling failed ends with the
\* default verdict, every other function has the verdict of its own reply,
\* and no run ends because an analysis failed.
C1_FailureIsolated ==
    /\ exit.cause # "analyze"
    /\ \A n \in 1..Len(outcomes) :
         /\ \E r \in Stored : r.startIndex = outcomes[n].id
         /\ \A r \in Stored :
              r.startIndex = outcomes[n].id =>
                r.analysis = IF Failed(outcomes[n].outcome) THEN DefaultVerdict
                             ELSE JsonParse(outcomes[n].outcome.reply).value

\* C2: a reply that is a JSON object without the two keys, or with keys of
\* the wrong type, is stored as the default verdict, so every stored verdict
\* has a boolean needsRefactor and a string-or-null refactorPrompt.
C2_StoredVerdictsWellTyped ==
    /\ \A n \in 1..Len(outcomes) :
         LET o == outcomes[n].outcome
         IN  (~Failed(o) /\ ~WellTyped(JsonParse(o.reply).value)) =>
               \A r \in Stored :
                 r.startIndex = outcomes[n].id => r.analysis = DefaultVerdict
    /\ \A r \in Stored : WellTyped(r.analysis)

RECURSIVE SizeOfBatches(_)
\* The number of records in the first n batches.
SizeOfBatches(n) ==
    IF n = 0 THEN 0 ELSE SizeOfBatches(n - 1) + Len(batches[n])

\* C3: analyzeFunctionBatch returns one record per input record, the i-th
\* being the analysis of the i-th function, whatever the completion order.
C3_BatchResultsInInputOrder ==
    variant = "batched" =>
      /\ Len(results) = SizeOfBatches(resolved)
      /\ \A j \in 1..Len(results) :
           results[j] = analyzeFunction(functions[j],
                                        OutcomeOf(functions[j].startIndex))

\* C3 witness: a batch of two resolved after its second call completed
\* first, and the two analyses differ.
C3_Witness ==
    /\ variant = "batched"
    /\ pc \in {"sleep", "summary"}
    /\ order = <<2, 1>>
    /\ Len(results) >= 2
    /\ results[Len(results) - 1].analysis # results[Len(results)].analysis

InFlight == started \ finished

\* The place of the function that starts at id among the functions.
PlaceOf(id) == CHOOSE j \in 1..Len(functions) : functions[j].startIndex = id

\* The batch (from 0) the function that starts at id belongs to.
BatchOf(id) == (PlaceOf(id) - 1) \div batchSize

\* C4: at most batchSize chat requests are in flight, and no request of a
\* batch is started before every request of the earlier batches completed.
C4_AtMostBatchSizeInFlight ==
    variant = "batched" =>
      /\ Cardinality(InFlight) <= batchSize
      /\ \A id \in started :
           \A j \in 1..Len(functions) :
             (j - 1) \div batchSize < BatchOf(id) =>
               functions[j].startIndex \in finished

\* C4 witness: with a batch size of two, the first batch has resolved and a
\* request of the second batch is in flight.
C4_Witness ==
    /\ variant = "batched"
    /\ batchSize = 2
    /\ resolved = 1
    /\ InFlight # {}
    /\ Cardinality(finished) = 2

\* Every function of the file has been analysed: its chat call has settled
\* and its record is among the results.
AllAnalysed ==
    /\ scanned # "no"
    /\ Len(results) = Len(functions)
    /\ started = {functions[j].startIndex : j \in 1..Len(functions)}
    /\ finished = started

\* The generator of this run throws before it calls writeFile.
ThrowsBeforeWrite ==
    (IF variant = "batched"
     THEN generateRefactorFileConsolidated(filePath, results, content, TRUE)
     ELSE generateRefactorFileSpliced(filePath, results, content, TRUE)).status
      = "threw"

\* The files before the run.
DiskAtStart == IF readable THEN {<<Normalize(filePath), content>>} ELSE {}

\* C11: a run writes at most one file, and only after every function of
\* every batch has been analysed; a run that ends with an error raised before
\* the write step (usage, unreadable file, analyzer error, generator error
\* before writeFile) has written nothing and left the files as they were.
C11_WriteOnceAfterAllAnalyses ==
    /\ Len(written) <= 1
    /\ written # <<>> => (AllAnalysed /\ pc = "done")
    /\ (/\ exit.code = 1
        /\ \/ exit.cause \in {"usage", "extract", "analyze"}
           \/ exit.cause = "generate" /\ ThrowsBeforeWrite)
         => (written = <<>> /\ disk = DiskAtStart)

\* C11 witness: a batched run analysed two functions or more and ended with
\* an error of the generator raised before its write step.
C11_Witness ==
    /\ variant = "batched"
    /\ exit = Exited(1, "generate")
    /\ ThrowsBeforeWrite
    /\ AllAnalysed
    /\ Len(results) >= 2
    /\ written = <<>>

\* C12: when the scanner returned no function, the run makes no chat call,
\* hands no batch (so no empty batch) to the analyzer, writes no file, does
\* not end with an error, and ends by printing that no function requires
\* refactoring.
C12_NoFunctionsNoWork ==
    (scanned # "no" /\ functions = <<>>) =>
      /\ started = {}
      /\ messages = <<>>
      /\ batches = <<>>
      /\ pc \in {"summary", "done"}
      /\ exit.code # 1
      /\ written = <<>>
      /\ disk = DiskAtStart
      /\ pc = "done" => printed = <<"No functions require refactoring!">>

\* C12 witness: a batched run over a file without functions has ended.
C12_Witness ==
    /\ variant = "batched"
    /\ scanned = "batched"
    /\ functions = <<>>
    /\ pc = "done"
    /\ exit = Exited(0, "end")
    /\ printed = <<"No functions require refactoring!">>

\* C13: the driver prints the usage and exits with 0 when the first argument
\* is --help or -h, prints the usage and exits with 1 when the file path is
\* missing, and in both cases reads no file, makes no chat call and writes no
\* file; after a runtime error it prints an error line and exits with 1.
C13_ExitStatus ==
    /\ (arg # "file" /\ pc # "start") =>
         /\ pc = "exited"
         /\ exit = Exited(IF arg \in {"--help", "-h"} THEN 0 ELSE 1, "usage")
         /\ printed = <<"Usage:">>
         /\ scanned = "no"
         /\ started = {}
         /\ messages = <<>>
         /\ written = <<>>
         /\ disk = DiskAtStart
    /\ exit.cause \in {"extract", "analyze", "generate"} =>
         /\ pc = "exited"
         /\ exit.code = 1
         /\ printed[Len(printed)] = "Error:"
    /\ pc = "exited" => exit.code \in {0, 1}
    /\ (pc = "exited" /\ exit.code = 0) => arg \in {"--help", "-h"}

\* C13 witness: the sequential driver was started with -h and has exited.
C13_Witness ==
    /\ variant = "sequential"
    /\ arg = "-h"
    /\ pc = "exited"
    /\ exit = Exited(0, "usage")
    /\ printed = <<"Usage:">>

-----------------------------------------------------------------------------
(* Properties of the consolidated generator *)

\* The places of the flagged records among the results.
FlaggedPlaces ==
    {i \in 1..Len(results) : Truthy(results[i].analysis.needsRefactor)}

\* The number of a flagged record: its rank by startIndex among the flagged.
NumberOf(i) ==
    Cardinality({j \in FlaggedPlaces :
                   results[j].startIndex <= results[i].startIndex})

\* What follows the numbered lines: the original content between its
\* heading and the closing directive.
ContentAndDirective ==
    <<"nl", "nl", "FILE CONTENT:", "nl">> \o content
      \o <<"nl", "nl", "Return only the complete refactored code">>

\* s starts with t.
StartsWith(s, t) == Len(s) >= Len(t) /\ Slice(s, 0, Len(t)) = t

\* The lines of the written text above the original content.
LinesAbove(text) ==
    Split(Slice(text, 0, Len(text) - Len(ContentAndDirective)), "nl")

\* C14: the consolidated generator writes a header that tells the number N
\* of flagged records, an empty line, N lines of which the k-th starts with
\* "k. Function '<name>': " for the flagged record of rank k by startIndex,
\* then the original content unmodified and the closing directive, whatever
\* the order of the records passed in.
C14_NumberedLinesThenContent ==
    (generated = "consolidated" /\ genResult.status = "returned"
       /\ ~genResult.isNull) =>
      /\ Len(written) = 1
      /\ LET text == written[1][2]
             N == Cardinality(FlaggedPlaces)
         IN  /\ Len(text) >= Len(ContentAndDirective)
             /\ SliceFrom(text, Len(text) - Len(ContentAndDirective))
                  = ContentAndDirective
             /\ Len(LinesAbove(text)) = N + 2
             /\ LinesAbove(text)[1]
                  = <<"Refactor the following file, focusing on these", "sp",
                      ToString(N), "sp", "functions:">>
             /\ LinesAbove(text)[2] = <<>>
             /\ \A i \in FlaggedPlaces :
                  StartsWith(LinesAbove(text)[2 + NumberOf(i)],
                             <<ToString(NumberOf(i)), ".", "sp", "Function", "sp", "'">>
                               \o results[i].name \o <<"'", ":", "sp">>)

\* C14 witness: two flagged records passed in descending order of startIndex,
\* and the file was written.
C14_Witness ==
    /\ generated = "consolidated"
    /\ genResult.status = "returned"
    /\ Len(written) = 1
    /\ Len(results) = 2
    /\ FlaggedPlaces = {1, 2}
    /\ results[1].startIndex > results[2].startIndex
    /\ Len(content) > 0

\* A line that is a code fence with its language tag.
IsFenceTagLine(line) == Len(Trim(line)) > 0 /\ Trim(line)[1] = "fence"

\* The lines of a prompt that are to reach the output: the ones that are not
\* blank, do not mention the module context and are no fence tag line.
LinesToKeep(prompt) ==
    SelectSeq(Split(prompt, "nl"),
              LAMBDA line : /\ Len(Trim(line)) > 0
                            /\ ~Includes(line, "Module Context")
                            /\ ~IsFenceTagLine(line))

\* C15: in the file of the consolidated generator the numbered line of every
\* flagged record holds, after the record's name, every line of its prompt
\* that is not blank, mentions no module context and is no code-fence
\* language tag, in order, a sentence that holds the word javascript included.
C15_PromptLinesReachOutput ==
    (generated = "consolidated" /\ genResult.status = "returned"
       /\ ~genResult.isNull) =>
      \A i \in FlaggedPlaces :
        LET kept == LinesToKeep(results[i].analysis.refactorPrompt.s)
        IN  LinesAbove(written[1][2])[2 + NumberOf(i)]
              = <<ToString(NumberOf(i)), ".", "sp", "Function", "sp", "'">>
                  \o results[i].name \o <<"'", ":", "sp">>
                  \o CollapseBlanks(Join([k \in 1..Len(kept) |-> Trim(kept[k])],
                                         <<"sp">>))

-----------------------------------------------------------------------------
(* Properties of the prompt *)

\* The instruction that ends every prompt.
JsonInstruction ==
    <<"nl", "nl", "Return your analysis in this exact JSON format">>

\* s ends with t.
EndsWith(s, t) == Len(s) >= Len(t) /\ SliceFrom(s, Len(s) - Len(t)) = t

\* C16: every chat call of a run has a user message that starts with one and
\* the same prompt; the prompt ends with the instruction about the JSON
\* format; for a non-empty requirement it holds the heading "Additional
\* requirements:" once, with the requirement verbatim on the lines under it
\* and the instruction after it; for a missing or empty requirement neither
\* the prompt nor a message holds the heading.
C16_RequirementInEveryPrompt ==
    (arg = "file" /\ pc # "start") =>
      /\ EndsWith(analysisPrompt, JsonInstruction)
      /\ \A n \in 1..Len(messages) : StartsWith(messages[n].content, analysisPrompt)
      /\ Truthy(userPrompt) =>
           \E k \in 1..Len(analysisPrompt) :
             /\ analysisPrompt[k] = "Additional requirements:"
             /\ \A j \in 1..Len(analysisPrompt) :
                  analysisPrompt[j] = "Additional requirements:" => j = k
             /\ SliceFrom(analysisPrompt, k)
                  = <<"nl">> \o userPrompt.s \o JsonInstruction
      /\ ~Truthy(userPrompt) =>
           /\ ~Includes(analysisPrompt, "Additional requirements:")
           /\ \A n \in 1..Len(messages) :
                ~Includes(messages[n].content, "Additional requirements:")

\* C16 witness: a batched run with a requirement has made the chat calls of
\* two functions or more.
C16_Witness ==
    /\ variant = "batched"
    /\ Truthy(userPrompt)
    /\ Len(messages) >= 2
    /\ messages[1].id # messages[2].id
    /\ Includes(messages[2].content, "req")

-----------------------------------------------------------------------------
(* The cache of the sample utilities (another_test.js) *)

\* Time is counted in units of half an hour: the time-to-live of one hour.
CACHE_TTL == 2
MaxTime == 3

\* What the preferences file can hold: two sets of preferences and a text
\* that is no JSON.
PrefsContents == {"light", "dark", "no json"}

\* What a call did: the utility, the key, how it ended, the time of the
\* call, whether its value came out of the cache, the timestamp of the entry
\* it came out of or went into, the value, and whether the call stored an
\* entry.
Call(fn, key, outcome, hit, timestamp, data, stored) ==
    [fn |-> fn, key |-> key, outcome |-> outcome, time |-> now, hit |-> hit,
     timestamp |-> timestamp, data |-> data, stored |-> stored]

\* A cache entry { data, timestamp, lastModified }.
Entry(data, timestamp, lastModified) ==
    [present |-> TRUE, data |-> data, timestamp |-> timestamp,
     lastModified |-> lastModified]

\* cachedResult && Date.now() - cachedResult.timestamp < CACHE_TTL
Fresh(entry) == entry.present /\ now - entry.timestamp < CACHE_TTL

\* A utility whose value is computed from its arguments: it returns the
\* cached value of a fresh entry, or computes the value and stores it.
CachedComputation(fn, key, value) ==
    IF Fresh(cache[key])
    THEN /\ lastCall' = Call(fn, key, "returned", TRUE,
                             cache[key].timestamp, cache[key].data, FALSE)
         /\ UNCHANGED cache
    ELSE /\ cache' = [cache EXCEPT ![key] = Entry(value, now, -1)]
         /\ lastCall' = Call(fn, key, "returned", FALSE, cache'[key].timestamp,
                             value, TRUE)

InitCache ==
    /\ ScanIdle
    /\ ParseIdle
    /\ GenIdle
    /\ RunIdle
    /\ now = 0
    /\ cache = [k \in CacheKeys |-> NoEntry]
    /\ prefsFile \in {[exists |-> FALSE, mtime |-> 0, data |-> "light"],
                      [exists |-> TRUE, mtime |-> 0, data |-> "light"]}
    /\ lastCall = NoCall
    /\ loads = [c \in Callers |-> NoLoad]

\* Time passes.
Tick ==
    /\ now < MaxTime
    /\ now' = now + 1
    /\ UNCHANGED <<cache, prefsFile, lastCall, loads, scanVars, parseVars, genVars,
                   runVars>>

\* processUserData(userData): a TypeError for an argument that is no array;
\* the value is a function of the argument alone.
ProcessUserData ==
    /\ \E isArray \in BOOLEAN :
         IF ~isArray
         THEN /\ lastCall' = Call("processUserData", "none", "threw", FALSE, 0,
                                  "none", FALSE)
              /\ UNCHANGED cache
         ELSE CachedComputation("processUserData", "users", "users")
    /\ UNCHANGED <<now, prefsFile, loads, scanVars, parseVars, genVars,
                   runVars>>

\* generateReport(data, options): the report holds the time it was made at.
GenerateReport ==
    /\ \E isArray \in BOOLEAN :
         IF ~isArray
         THEN /\ lastCall' = Call("generateReport", "none", "threw", FALSE, 0,
                                  "none", FALSE)
              /\ UNCHANGED cache
         ELSE CachedComputation("generateReport", "report", ToString(now))
    /\ UNCHANGED <<now, prefsFile, loads, scanVars, parseVars, genVars,
                   runVars>>

\* loadUserPreferences(userId), from its call to its return: the fresh entry;
\* else fs.stat, and the entry of any age when the file's mtime is the
\* entry's lastModified; else the file read, parsed and stored.  A missing
\* file and a file that is no JSON give the defaults, which are not stored.
LoadUserPreferences ==
    /\ \E validId \in BOOLEAN :
         LET entry == cache["prefs"]
         IN  IF ~validId
             THEN /\ lastCall' = Call("loadUserPreferences", "none", "threw",
                                      FALSE, 0, "none", FALSE)
                  /\ UNCHANGED cache
             ELSE IF Fresh(entry)
             THEN /\ lastCall' = Call("loadUserPreferences", "prefs", "returned",
                                      TRUE, entry.timestamp, entry.data, FALSE)
                  /\ UNCHANGED cache
             ELSE IF ~prefsFile.exists
             THEN /\ lastCall' = Call("loadUserPreferences", "prefs", "returned",
                                      FALSE, 0, "defaults", FALSE)
                  /\ UNCHANGED cache
             ELSE IF entry.present /\ entry.lastModified = prefsFile.mtime
             THEN /\ lastCall' = Call("loadUserPreferences", "prefs", "returned",
                                      TRUE, entry.timestamp, entry.data, FALSE)
                  /\ UNCHANGED cache
             ELSE IF prefsFile.data = "no json"
             THEN /\ lastCall' = Call("loadUserPreferences", "prefs", "returned",
                                      FALSE, 0, "defaults", FALSE)
                  /\ UNCHANGED cache
             ELSE /\ cache' = [cache EXCEPT
                                 !["prefs"] = Entry(prefsFile.data, now, prefsFile.mtime)]
                  /\ lastCall' = Call("loadUserPreferences", "prefs", "returned",
                                      FALSE, cache'["prefs"].timestamp,
                                      prefsFile.data, TRUE)
    /\ UNCHANGED <<now, prefsFile, loads, scanVars, parseVars, genVars,
                   runVars>>

\* invalidateCache(specificPath): one key deleted, or the cache cleared.
InvalidateCache ==
    /\ \/ \E key \in CacheKeys : cache' = [cache EXCEPT ![key] = NoEntry]
       \/ cache' = [k \in CacheKeys |-> NoEntry]
    /\ UNCHANGED <<now, prefsFile, lastCall, loads, scanVars, parseVars, genVars,
                   runVars>>

\* The preferences file is written by its owner, or deleted.
PrefsFileChanges ==
    /\ \/ \E data \in PrefsContents :
            prefsFile' = [exists |-> TRUE, mtime |-> now, data |-> data]
       \/ prefsFile' = [prefsFile EXCEPT !.exists = FALSE]
    /\ prefsFile' # prefsFile
    /\ UNCHANGED <<now, cache, lastCall, loads, scanVars, parseVars, genVars,
                   runVars>>

NextCache ==
    \/ Tick
    \/ ProcessUserData
    \/ GenerateReport
    \/ LoadUserPreferences
    \/ InvalidateCache
    \/ PrefsFileChanges

SpecCache == InitCache /\ [][NextCache]_vars

-----------------------------------------------------------------------------
(* Calls of loadUserPreferences in flight together *)

\* The cache.set that keeps an entry the key already has.
CacheSetIfAbsent(c, key, entry) ==
    IF c[key].present THEN c ELSE [c EXCEPT ![key] = entry]

\* cache.set(key, entry)
CacheSet(c, key, entry) == [c EXCEPT ![key] = entry]

\* How many callers have stored an entry.
Stores == Cardinality({c \in Callers : loads[c].rank > 0})

InitLoads ==
    /\ ScanIdle
    /\ ParseIdle
    /\ GenIdle
    /\ RunIdle
    /\ now = 0
    /\ prefsFile \in {[exists |-> FALSE, mtime |-> 0, data |-> "light"],
                      [exists |-> TRUE, mtime |-> 0, data |-> "light"]}
    /\ cache \in {[k \in CacheKeys |-> NoEntry],
                  [k \in CacheKeys |->
                     IF k = "prefs" /\ prefsFile.exists
                     THEN Entry("light", 0, 0) ELSE NoEntry]}
    /\ lastCall = NoCall
    /\ loads = [c \in Callers |-> NoLoad]

\* loadUserPreferences(userId) up to its first await: the check of the id,
\* cache.get, the return of a fresh entry, the call of fs.stat.
LoadStarts(c) ==
    /\ loads[c].stage = "idle"
    /\ \E validId \in BOOLEAN :
         LET cachedPrefs == cache["prefs"]
         IN  loads' = [loads EXCEPT ![c] =
               IF ~validId
               THEN [@ EXCEPT !.stage = "done", !.outcome = "threw"]
               ELSE IF Fresh(cachedPrefs)
               THEN [@ EXCEPT !.stage = "done", !.outcome = "hit",
                              !.cachedPrefs = cachedPrefs]
               ELSE [@ EXCEPT !.stage = "stat", !.cachedPrefs = cachedPrefs,
                              !.seen = Stores]]
    /\ UNCHANGED <<now, cache, prefsFile, lastCall, scanVars, parseVars, genVars,
                   runVars>>

\* fs.stat settles: ENOENT gives the defaults; the cachedPrefs of the call
\* are returned when their lastModified is the file's mtime; else
\* fs.readFile is called.
StatCompletes(c) ==
    /\ loads[c].stage = "stat"
    /\ loads' = [loads EXCEPT ![c] =
         IF ~prefsFile.exists
         THEN [@ EXCEPT !.stage = "done", !.outcome = "defaults"]
         ELSE IF @.cachedPrefs.present /\ @.cachedPrefs.lastModified = prefsFile.mtime
         THEN [@ EXCEPT !.stage = "done", !.outcome = "unchanged",
                        !.mtime = prefsFile.mtime]
         ELSE [@ EXCEPT !.stage = "read", !.mtime = prefsFile.mtime]]
    /\ UNCHANGED <<now, cache, prefsFile, lastCall, scanVars, parseVars, genVars,
                   runVars>>

\* fs.readFile settles: ENOENT and a text that is no JSON give the defaults;
\* else the preferences are stored with Date.now() and the mtime of the
\* call's stats, and returned.
ReadCompletes(c) ==
    /\ loads[c].stage = "read"
    /\ IF ~prefsFile.exists
       THEN /\ loads' = [loads EXCEPT ![c] =
                           [@ EXCEPT !.stage = "done", !.outcome = "defaults"]]
            /\ UNCHANGED cache
       ELSE IF prefsFile.data = "no json"
       THEN /\ loads' = [loads EXCEPT ![c] =
                           [@ EXCEPT !.stage = "done", !.outcome = "defaults",
                                     !.read = TRUE]]
            /\ UNCHANGED cache
       ELSE LET entry == Entry(prefsFile.data, now, loads[c].mtime)
            IN  /\ cache' = CacheSet(cache, "prefs", entry)
                /\ loads' = [loads EXCEPT ![c] =
                               [@ EXCEPT !.stage = "done", !.outcome = "loaded",
                                         !.read = TRUE, !.stored = entry,
                                         !.rank = Stores + 1]]
    /\ UNCHANGED <<now, prefsFile, lastCall, scanVars, parseVars, genVars, runVars>>

NextLoads ==
    \/ Tick
    \/ \E c \in Callers : LoadStarts(c)
    \/ \E c \in Callers : StatCompletes(c)
    \/ \E c \in Callers : ReadCompletes(c)
    \/ InvalidateCache
    \/ PrefsFileChanges

SpecLoads == InitLoads /\ [][NextLoads]_vars

\* C17: a value that comes out of the cache comes out of an entry younger
\* than the time-to-live; a call that finds no such entry and computes or
\* loads its value stores it with the time of the call as its timestamp.
C17_ExpiredNeverServed ==
    /\ lastCall.hit => lastCall.time - lastCall.timestamp < CACHE_TTL
    /\ (/\ lastCall.outcome = "returned"
        /\ ~lastCall.hit
        /\ lastCall.data # "defaults") =>
         /\ lastCall.stored
         /\ lastCall.timestamp = lastCall.time

-----------------------------------------------------------------------------
(* Properties of the output path *)

\* A file name with ".refactor" put in front of its extension, or at its end
\* when it has none.
RefactorName(b) ==
    IF Len(b) >= 2 /\ b[Len(b)] \in DotParts
    THEN Slice(b, 0, Len(b) - 1) \o <<".refactor", b[Len(b)]>>
    ELSE b \o <<".refactor">>

\* The sibling of the analysed file that bears its refactor name.
RefactorSibling ==
    LET n == Normalize(filePath)
    IN  Slice(n, 0, Len(n) - Len(LastSegment(n))) \o RefactorName(LastSegment(n))

\* C18: a generator call that returns a path has written exactly one file,
\* at <dir>/<basename>.refactor<ext> of the input path; that path is not the
\* input path, the analysed file is as it was, and the file at the output
\* path holds the generated text and nothing of the file that was there.
C18_OneFileAtRefactorPath ==
    (generated # "no" /\ genResult.status = "returned" /\ ~genResult.isNull) =>
      /\ Len(written) = 1
      /\ written[1][1] = genResult.path
      /\ genResult.path = RefactorSibling
      /\ genResult.path # Normalize(filePath)
      /\ disk = {<<Normalize(filePath), content>>, <<genResult.path, written[1][2]>>}
      /\ \A f \in disk : f[2] # OldText

\* C18 witness: the spliced generator has written the refactor file of
\* ./utils.js, with a comment block in it.
C18_Witness ==
    /\ generated = "spliced"
    /\ genResult.status = "returned"
    /\ filePath = <<".", "/", "utils", ".js">>
    /\ genResult.path = <<"utils", ".refactor", ".js">>
    /\ Len(written) = 1
    /\ Len(written[1][2]) > Len(content)

-----------------------------------------------------------------------------
(* Properties of the marker comments *)

\* The text from a to b is a REFACTOR: marker comment.
MarkerSpan(a, b) ==
    \E n \in 1..Len(M(refactorCommentRegex, content, MatchState(a))) :
      M(refactorCommentRegex, content, MatchState(a))[n].pos = b

\* The text from b to c is blank.
BlankSpan(b, c) == \A k \in (b + 1)..c : content[k] \in Space

\* A declaration starts at c and ends where record i ends.
DeclarationOf(i, c) ==
    /\ functions[i].startIndex <= c
    /\ c < functions[i].endIndex
    /\ \E n \in 1..Len(M(declarationRegexBatched, content, MatchState(c))) :
         M(declarationRegexBatched, content, MatchState(c))[n].pos
           = functions[i].endIndex

\* C19: the record of a function that a REFACTOR: marker comment immediately
\* precedes has that comment as its preText, and a record's preText is empty
\* only when no marker comment lies between the end of the previous function
\* and the function's declaration.
C19_MarkerIsPreText ==
    scanned = "batched" =>
      \A i \in 1..Len(functions) :
        \A a \in 0..Len(content), b \in 0..Len(content), c \in 0..Len(content) :
          (/\ (IF i = 1 THEN 0 ELSE functions[i - 1].endIndex) <= a
           /\ a < b
           /\ b <= c
           /\ MarkerSpan(a, b)
           /\ DeclarationOf(i, c)) =>
            /\ functions[i].preText # <<>>
            /\ BlankSpan(b, c) => functions[i].preText = Slice(content, a, b)

-----------------------------------------------------------------------------
(* Properties of the async qualifier *)

\* The token before offset s, blanks aside, is an async qualifier.
AsyncBefore(text, s) ==
    /\ s >= 2
    /\ text[s] \in Space
    /\ text[s - 1] = "async"

\* C20: the span of a function declared with an async qualifier starts at the
\* qualifier, and in the file of the spliced generator no comment block
\* stands between an async qualifier and its function.
C20_BlockBeforeAsync ==
    /\ scanned # "no" =>
         \A i \in 1..Len(functions) :
           ~AsyncBefore(content, functions[i].startIndex)
    /\ (generated = "spliced" /\ Len(written) = 1) =>
         \A k \in 1..Len(written[1][2]) :
           (written[1][2][k] = "/**" /\ k >= 2) =>
             ~AsyncBefore(written[1][2], k - 2)

-----------------------------------------------------------------------------
(* Properties of the number of comment blocks *)

\* How many times the lexeme c stands in s.
Count(s, c) == Cardinality({k \in 1..Len(s) : s[k] = c})

\* The comment blocks in the text of a generator call: each block holds the
\* REFACTOR line once, and no original content holds it.
InsertedBlocks == Count(genResult.text, "*REFACTOR:")

\* analysisResults.filter(r => r.analysis.needsRefactor).length
refactorCount == Len(Flagged(results))

\* C21: the file of the spliced generator holds one comment block for each
\* record with needsRefactor = true, a record whose prompt is null or the
\* empty string included: as many blocks as the refactor count the driver
\* reports.
C21_OneBlockPerFlaggedRecord ==
    (generated = "spliced" /\ genResult.wrote) =>
      InsertedBlocks = refactorCount

-----------------------------------------------------------------------------
(* Termination of the batched driver *)

\* main has returned or has called process.exit.
Terminated == pc \in {"done", "exited"}

\* A chat call of the current batch has neither completed nor failed.
ChatPending == pc = "await" /\ \E k \in DOMAIN calls : calls[k] = "pending"

\* A run of the batched driver that has extracted its functions.
BatchedRun == variant = "batched" /\ scanned = "batched"

\* ceil(n / B) for the n extracted functions and the batch size B.
NumberOfBatches == (Len(functions) + batchSize - 1) \div batchSize

\* C22: when every chat call eventually completes or fails, a run of the
\* batched driver terminates; it has then resolved exactly ceil(n / B)
\* batches and slept once between each two consecutive batches and not after
\* the last; and while a chat call is pending its batch does not resolve, no
\* later batch starts and main does not move on.
C22_BatchedRunTerminates ==
    /\ (variant = "batched" /\ []<>(~ChatPending)) => <>Terminated
    /\ [](BatchedRun /\ Terminated =>
            /\ resolved = NumberOfBatches
            /\ pauses = IF NumberOfBatches = 0 THEN 0 ELSE NumberOfBatches - 1)
    /\ [](BatchedRun /\ pc \in {"batch", "await"} =>
            /\ pauses = resolved
            /\ resolved < NumberOfBatches)
    /\ [][ChatPending =>
            /\ resolved' = resolved
            /\ started' = started
            /\ pauses' = pauses
            /\ pc' = "await"]_vars

\* C22 witness: a run over three functions in batches of two has ended after
\* two batches and one pause.
C22_Witness ==
    /\ BatchedRun
    /\ Terminated
    /\ Len(functions) = 3
    /\ batchSize = 2
    /\ resolved = 2
    /\ pauses = 1

-----------------------------------------------------------------------------
(* The consolidated generator over the verdicts of the data model *)

\* C24: when every analysed record holds a verdict of the data model and
\* some record has needsRefactor = true, the consolidated generator does not
\* throw before its write, and with the file written it returns the output
\* path and the run ends with status 0; a flagged record without a prompt
\* included.
C24_FlaggedVerdictsGenerate ==
    (/\ generated = "consolidated"
     /\ \A j \in 1..Len(results) : WellTyped(results[j].analysis)
     /\ \E j \in 1..Len(results) : results[j].analysis.needsRefactor = JsTrue) =>
      /\ ~ThrowsBeforeWrite
      /\ genResult.wrote =>
           /\ genResult.status = "returned"
           /\ ~genResult.isNull
           /\ genResult.path = RefactorPath(filePath)
           /\ variant = "batched" => exit.code = 0

-----------------------------------------------------------------------------
(* Chunking *)

\* The startIndex of every record of a list, in order.
StartIndexes(records) == [k \in 1..Len(records) |-> records[k].startIndex]

\* C25: the batches of a run are ceil(n / B) in number, none is empty, every
\* batch but the last holds exactly B records, and their concatenation is the
\* list of extracted functions; no function is sent to the chat capability
\* twice, and once the batches are done every function has been sent once
\* and the results hold one entry per function in source order.
C25_ChunksPartitionFunctions ==
    BatchedRun =>
      /\ Len(batches) = NumberOfBatches
      /\ \A i \in 1..Len(batches) :
           /\ Len(batches[i]) > 0
           /\ Len(batches[i]) <= batchSize
           /\ i < Len(batches) => Len(batches[i]) = batchSize
      /\ Concat(batches) = functions
      /\ \A a, b \in 1..Len(messages) :
           messages[a].id = messages[b].id => a = b
      /\ pc \in {"summary", "done", "exited"} =>
           /\ [k \in 1..Len(messages) |-> messages[k].id] = StartIndexes(functions)
           /\ StartIndexes(results) = StartIndexes(functions)
           /\ Len(results) = Len(functions)

\* C25 witness: three functions in batches of two, a full batch and a last
\* batch of one, all sent and all analysed.
C25_Witness ==
    /\ BatchedRun
    /\ pc = "done"
    /\ Len(functions) = 3
    /\ batchSize = 2
    /\ Len(batches) = 2
    /\ Len(batches[1]) = 2
    /\ Len(batches[2]) = 1
    /\ Len(messages) = 3
    /\ Len(results) = 3

-----------------------------------------------------------------------------
(* Properties of calls of loadUserPreferences in flight together *)

\* The caller whose cache.set came last.
LastStorer == CHOOSE c \in Callers : loads[c].rank = Stores

\* C23: nothing keeps two calls for the same user from both missing the
\* cache and both reading the file; when all calls have completed and some
\* have stored, the entry of the key, unless it was invalidated since, is the
\* one of the call that stored last: its data, its timestamp.
C23_LastStoreWins ==
    (/\ \A c \in Callers : loads[c].stage = "done"
     /\ Stores > 0
     /\ cache["prefs"].present) =>
      /\ cache["prefs"].data = loads[LastStorer].stored.data
      /\ cache["prefs"].timestamp = loads[LastStorer].stored.timestamp
      /\ cache["prefs"].lastModified = loads[LastStorer].stored.lastModified

\* C23 witness: two calls, one made with no entry and one with an expired
\* entry, both before any cache.set; both missed, both read the file and
\* stored, at different times, and the cache holds the entry of the second
\* to store, not the one of the first.
C23_Witness ==
    /\ \A c \in Callers :
         /\ loads[c].stage = "done"
         /\ loads[c].outcome = "loaded"
         /\ loads[c].read
         /\ loads[c].seen = 0
    /\ ~loads[1].cachedPrefs.present
    /\ loads[2].cachedPrefs.present
    /\ loads[1].rank = 1
    /\ loads[2].rank = 2
    /\ loads[1].stored.timestamp # loads[2].stored.timestamp
    /\ cache["prefs"] = loads[2].stored
    /\ cache["prefs"] # loads[1].stored

=============================================================================
